---- MODULE Spec2Model ----
(***************************************************************************)
(* Completion streaming of llm-playground: the Tauri command               *)
(* build_token_stream and its streaming task collect_tokens                *)
(* (tauri/src/fetch_tokens.rs), the three response decoders, and the chat  *)
(* view that submits, cancels and listens for tokens (ui/src/chat.rs).     *)
(*                                                                         *)
(* One window with one chat view.  Time is counted in milliseconds; a      *)
(* request's clock is the time since its last_event_timestamp.  A task     *)
(* that has been woken is polled before time advances (Tick is disabled    *)
(* while a task is runnable); events of the environment (a unit arriving,  *)
(* a cancel being delivered) may fall between the wake-up and the poll.    *)
(***************************************************************************)
EXTENDS Integers, Sequences, FiniteSets, TLC

\* ---- bounds of the model ----
MaxReq == 2          \* requests submitted from the view in one run
MaxFrames == 2       \* upstream units stop arriving after this many frames
MaxCancels == 2      \* clicks on Cancel in one run
MaxInFlight == 1     \* cancel events emitted by the view and not yet delivered
MaxKeys == 1         \* stored API keys
TickMs == 5          \* granularity of the clock
TwoFrames == 1       \* MaxFrames, where two requests are followed
TwoCancels == 1      \* MaxCancels, where two requests are followed
MaxAppend == 3       \* exchanges appended in the earlier view before New
MaxApply == 2        \* presses on Apply in one run
MaxCalls == 2        \* storage commands outstanding when the user deletes an exchange

\* ---- program constants ----
bottleneck == 25
\* reqwest::StatusCode::OK
OK == 200

Req == 1..MaxReq
Null == "null"
Providers == {"OpenAI", "Anthropic", "Google"}

\* ---- tokens: Result<Option<String>> ----
Text(s) == [kind |-> "Text", txt |-> s]
EndTok == [kind |-> "End", txt |-> ""]
ErrTok(m) == [kind |-> "Err", txt |-> m]
ParseError == "Error parsing response."

\* ---- raw response units ----
\* data: the payload text, by what serde_json makes of it
Json(fin, content, dtext, haserr, emsg, cand) ==
    [form |-> "json", finish_reason |-> fin, content |-> content, delta_text |-> dtext,
     has_error |-> haserr, error_message |-> emsg, cand_text |-> cand,
     message_content |-> Null]
Plain(form) ==
    [form |-> form, finish_reason |-> FALSE, content |-> Null, delta_text |-> Null,
     has_error |-> FALSE, error_message |-> Null, cand_text |-> Null,
     message_content |-> Null]
\* a whole chat completion: choices[0].message.content
Completion(content) ==
    [Json(FALSE, Null, Null, FALSE, Null, Null) EXCEPT !.message_content = content]
\* one item of the transport stream: an SSE event, or a byte chunk (lead, trail: JSON-array framing)
Unit(event, lead, trail, data) ==
    [item |-> "ok", event |-> event, lead |-> lead, trail |-> trail, data |-> data]
IoError == [item |-> "io_error", event |-> "", lead |-> "", trail |-> FALSE, data |-> Plain("empty")]
Closed == [item |-> "closed", event |-> "", lead |-> "", trail |-> FALSE, data |-> Plain("empty")]
\* the items of stream::once(response.text()..).chain(stream::once(ready(Ok(None)))): the
\* body of the response, and the Ok(None) that follows it
Body(data) == [item |-> "text", event |-> "", lead |-> "", trail |-> FALSE, data |-> data]
ReadyEnd == [item |-> "ready_end", event |-> "", lead |-> "", trail |-> FALSE, data |-> Plain("empty")]

OpenAIUnits ==
    { Unit("message", "", FALSE, Plain("done")),
      Unit("error", "", FALSE, Plain("garbage")),
      Unit("message", "", FALSE, Plain("garbage")),
      Unit("message", "", FALSE, Json(TRUE, "t", Null, FALSE, Null, Null)),
      Unit("message", "", FALSE, Json(FALSE, "t", Null, FALSE, Null, Null)),
      Unit("message", "", FALSE, Json(FALSE, "", Null, FALSE, Null, Null)),
      Unit("message", "", FALSE, Json(FALSE, Null, Null, FALSE, Null, Null)),
      IoError }

AnthropicUnits ==
    { Unit("error", "", FALSE, Json(FALSE, Null, Null, TRUE, "overloaded", Null)),
      Unit("ping", "", FALSE, Json(FALSE, Null, Null, FALSE, Null, Null)),
      Unit("message_start", "", FALSE, Plain("garbage")),
      Unit("content_block_delta", "", FALSE, Json(FALSE, Null, "t", FALSE, Null, Null)),
      Unit("content_block_delta", "", FALSE, Json(FALSE, Null, "", FALSE, Null, Null)),
      Unit("content_block_delta", "", FALSE, Json(FALSE, Null, Null, FALSE, Null, Null)),
      IoError }

GoogleUnits ==
    { Unit("", "[", FALSE, Json(FALSE, Null, Null, FALSE, Null, "t")),
      Unit("", ",", FALSE, Json(FALSE, Null, Null, FALSE, Null, "t")),
      Unit("", ",", TRUE, Json(FALSE, Null, Null, FALSE, Null, "")),
      Unit("", "", TRUE, Plain("empty")),
      Unit("", "[", FALSE, Plain("empty")),
      Unit("", ",", FALSE, Json(FALSE, Null, Null, TRUE, "quota", "t")),
      Unit("", ",", FALSE, Json(FALSE, Null, Null, TRUE, Null, Null)),
      Unit("", ",", FALSE, Json(FALSE, Null, Null, FALSE, Null, Null)),
      Unit("", "", FALSE, Plain("garbage")),
      IoError }

O1Bodies ==
    { Body(Completion("t")),
      Body(Completion("")),
      Body(Json(FALSE, "t", Null, FALSE, Null, Null)),
      Body(Plain("garbage")),
      IoError }

UnitsOf(p) ==
    IF p = "OpenAI" THEN OpenAIUnits
    ELSE IF p = "Anthropic" THEN AnthropicUnits
    ELSE GoogleUnits

\* ---- decoders ----
parse_openai_nonstreaming_response_Delta(response_text) ==
    IF response_text.data.form # "json" THEN ErrTok(ParseError)
    ELSE IF response_text.data.content # Null THEN Text(response_text.data.content)
    ELSE ErrTok(ParseError)

\* with the map(Some) of the caller: Ok(content) is the item Ok(Some(content))
parse_openai_nonstreaming_response(response_text) ==
    IF response_text.data.form # "json" THEN ErrTok(ParseError)
    ELSE IF response_text.data.message_content # Null
         THEN Text(response_text.data.message_content)
    ELSE ErrTok(ParseError)

parse_openai_response_ContentFirst(message) ==
    IF message.event = "error" THEN ErrTok("<event data>")
    ELSE IF message.data.form = "done" THEN EndTok
    ELSE IF message.data.form # "json" THEN ErrTok(ParseError)
    ELSE IF message.data.content # Null THEN Text(message.data.content)
    ELSE IF message.data.finish_reason THEN EndTok
    ELSE ErrTok(ParseError)

parse_openai_response(message) ==
    IF message.event = "error" THEN ErrTok("<event data>")
    ELSE IF message.data.form = "done" THEN EndTok
    ELSE IF message.data.form # "json" THEN ErrTok(ParseError)
    ELSE IF message.data.finish_reason THEN EndTok
    ELSE IF message.data.content # Null THEN Text(message.data.content)
    ELSE ErrTok(ParseError)

parse_anthropic_response_Lenient(message) ==
    IF message.event = "error" THEN ErrTok("<event data>")
    ELSE IF message.data.form # "json" THEN ErrTok(ParseError)
    ELSE IF message.event # "content_block_delta" THEN Text("")
    ELSE IF message.data.delta_text # Null THEN Text(message.data.delta_text)
    ELSE Text("")

parse_anthropic_response(message) ==
    IF message.event = "error" THEN ErrTok("<event data>")
    ELSE IF message.data.form # "json" THEN ErrTok(ParseError)
    ELSE IF message.event # "content_block_delta" THEN Text("")
    ELSE IF message.data.delta_text # Null THEN Text(message.data.delta_text)
    ELSE ErrTok(ParseError)

parse_google_response(message) ==
    IF message.trail /\ message.data.form = "empty" THEN EndTok
    ELSE IF message.data.form # "json" THEN ErrTok(ParseError)
    ELSE IF message.data.has_error
         THEN ErrTok(IF message.data.error_message # Null
                     THEN message.data.error_message ELSE "Error with request.")
    ELSE IF message.data.cand_text # Null THEN Text(message.data.cand_text)
    ELSE ErrTok(ParseError)

\* the item of tokens_stream made from one transport item (the map closures)
Decode(p, u) ==
    IF u.item = "io_error" THEN ErrTok("<transport>")
    ELSE IF u.item = "ready_end" THEN EndTok
    ELSE IF u.item = "text" THEN parse_openai_nonstreaming_response(u)
    ELSE IF p = "OpenAI" THEN parse_openai_response(u)
    ELSE IF p = "Anthropic" THEN parse_anthropic_response(u)
    ELSE parse_google_response(u)

\* ---- state ----
VARIABLES
    pc,          \* backend position of each request: idle, building, sending, streaming, done
    prov,        \* api_key.provider of the request
    stop,        \* how the request ended ("none" while it has not)
    ret,         \* what the command returned to the view: none, Err, true, false
    permit,      \* the stored permit of the request's Notify (cancel)
    cancelL,     \* the request's "cancel" listener is registered on the window
    clock,       \* ms since last_event_timestamp
    started,     \* clock when the current rate_limit future was first polled
    sleepFor,    \* duration of its sleep
    ready,       \* the transport item the stream can yield now (at most one)
    decoded,     \* the non-empty items the token stream has yielded to rate_limit, in order
    frames,      \* the tokens passed to window.emit("token", ..) for the request, in order
    last,        \* the latest of these calls: its branch, its clock, whether it succeeded
    cancels,     \* the cancel events delivered while the request existed
    cancelQ,     \* cancel events emitted by the view, not yet delivered
    clicks,      \* clicks on Cancel so far
    uiStreaming, \* the view's streaming signal
    cur,         \* the request the view is waiting for (0: none)
    uiPhase,     \* the view's task for the request: none, invoked, listening, collecting, final
    uiL,         \* the view's "token" listener of the request is registered
    got,         \* the frames handled by that listener while its stream was read: <<from, index>>
    channel,     \* the earlier backend (src-tauri): the items waiting in CHANNEL
    answer,      \* new_exchange.assistant_message, as the texts pushed to it
    exchanges,   \* the view's exchanges: the request whose prompt it is, and the answer
    prompt,      \* the input box: the request whose prompt was put back (0: none)
    saved,       \* the latest list passed to set_exchanges
    keys,        \* the keys of the view's exchanges, in the order of the list
    uuid,        \* the view's conversation uuid: None or Some(id)
    calls,       \* the storage commands the view has invoked that have not returned yet
    store,       \* the database: the set of conversations [uuid, exchanges], the exchanges
                 \* being a list of <<key, exchange>>
    counter,     \* the key counter of the earlier view (leptos); <<>> in the view of ui
    config,      \* the settings' edited Config: api_key, the names of api_keys, max_tokens
                 \* (a u32 is held as its decimal numeral)
    max_tokens,  \* the text of the settings' max-tokens field
    active_config, \* the Config the chat view uses
    saved_config,  \* the settings' copy of the saved Config: None or Some(config)
    error,       \* the error message shown
    pending,     \* the config commands the settings have invoked that have not returned yet
    disk,        \* config.json: <<>> when there is no file, else <<config>>
    applies,     \* how often Apply was pressed
    new_key,     \* the settings' new_key: None, or Some(name typed so far)
    lastOp,      \* the latest operation on the key list, and the selection before it
    chain,       \* the once-chain stream of a response that is read whole: <<>> when the
                 \* response is streamed, else the body read and the number of items yielded
    status,      \* response.status() of each request (<<>>: no response)
    fin,         \* the arguments of the function under study (<<>>: none)
    fout         \* its result, once it has been called (<<>>: not yet)

backend == <<pc, prov, stop, ret, permit, cancelL>>
timing == <<clock, started, sleepFor, ready>>
cancelv == <<cancels, cancelQ, clicks>>
applyv == <<max_tokens, active_config, saved_config, error, pending, disk, applies>>
settings == <<config, new_key, lastOp, applyv>>
extra == <<chain, counter, status, fin, fout>>
ui == <<uiStreaming, cur, uiPhase, uiL, got, answer, exchanges, prompt, saved, keys, uuid, calls, store>>
vars == <<pc, prov, stop, ret, permit, cancelL, clock, started, sleepFor, ready,
          decoded, frames, last, cancels, cancelQ, clicks, uiStreaming, cur, uiPhase, uiL, got,
          channel, answer, exchanges, prompt, saved, keys, uuid, calls, store, config, new_key, lastOp,
          max_tokens, active_config, saved_config, error, pending, disk, applies,
          chain, counter, status, fin, fout>>

\* Config::default(), as far as the settings are followed
DefaultConfig == [api_key |-> <<>>, api_keys |-> <<>>, max_tokens |-> <<"1", "0", "2", "4">>]

InitStream ==
    /\ pc = [r \in Req |-> "idle"]
    /\ prov = [r \in Req |-> "OpenAI"]
    /\ stop = [r \in Req |-> "none"]
    /\ ret = [r \in Req |-> "none"]
    /\ permit = [r \in Req |-> FALSE]
    /\ cancelL = [r \in Req |-> FALSE]
    /\ clock = [r \in Req |-> 0]
    /\ started = [r \in Req |-> 0]
    /\ sleepFor = [r \in Req |-> 0]
    /\ ready = [r \in Req |-> <<>>]
    /\ decoded = [r \in Req |-> <<>>]
    /\ frames = [r \in Req |-> <<>>]
    /\ last = [r \in Req |-> [by |-> "none", gap |-> 0, held |-> FALSE, ok |-> TRUE]]
    /\ cancels = [r \in Req |-> <<>>]
    /\ cancelQ = <<>>
    /\ clicks = 0
    /\ uiStreaming = FALSE
    /\ cur = 0
    /\ uiPhase = [r \in Req |-> "none"]
    /\ uiL = [r \in Req |-> FALSE]
    /\ got = [r \in Req |-> <<>>]
    /\ channel = <<>>
    /\ answer = <<>>
    /\ exchanges = <<>>
    /\ prompt = 0
    /\ saved = <<>>
    /\ keys = <<>>
    /\ uuid = <<>>
    /\ calls = <<>>
    /\ store = {}
    /\ config = DefaultConfig
    /\ max_tokens = <<>>
    /\ active_config = DefaultConfig
    /\ saved_config = <<>>
    /\ error = ""
    /\ pending = <<[fn |-> "load_config", config |-> DefaultConfig]>>
    /\ disk = <<>>
    /\ applies = 0
    /\ new_key = <<>>
    /\ lastOp = [op |-> "none", index |-> 0, before |-> <<>>]
    /\ status = [r \in Req |-> <<>>]

InitProgram ==
    /\ InitStream
    /\ chain = [r \in Req |-> <<>>]
    /\ counter = <<>>

Init ==
    /\ InitProgram
    /\ fin = <<>>
    /\ fout = <<>>

\* ---- helpers ----
\* Option<usize>: None is <<>>, Some(i) is <<i>>
None == <<>>
Some(i) == <<i>>
\* config.api_key.ok_or(..)?; config.api_keys.get(index).ok_or(..)?
SelectKey(api_key, nkeys) ==
    IF api_key = None THEN "No API key selected."
    ELSE IF api_key[1] < nkeys THEN "ok"
    ELSE "Invalid selection."

\* rate_limit without its sleep
SleepFor_None(elapsed) == 0

\* the sleep rate_limit joins with the next item; 0 when it awaits the item alone
SleepFor(elapsed) ==
    IF elapsed > bottleneck THEN 0 ELSE bottleneck - elapsed

\* the rate_limit future of request r is ready
RateLimitReady(r) ==
    /\ ready[r] # <<>>
    /\ clock[r] - started[r] >= sleepFor[r]

\* collect_tokens without the break after Ok(None)
BreaksAfter_Never(tokens) == FALSE

\* `if let Ok(None) = tokens { break; }`
BreaksAfter(tokens) == tokens.kind = "End"

\* a cancel branch that breaks without emitting
CancelEmits_Nothing == <<>>

\* what the cancel branch of collect_tokens emits
CancelEmits == <<EndTok>>

\* a command that reports a failed send as if the stream had started
SendFailure_Swallowed(outcome) == "false"

\* what the command returns when request.send() failed (`?`) or the status is not 200
\* (`return Err(..)`)
SendFailure(outcome) == "Err"

\* collect_tokens without its skip of empty tokens
IsEmptyToken_Never(tokens) == FALSE

\* `tokens == &Some("".into())`: the item is Ok(Some(""))
IsEmptyToken(tokens) == tokens = Text("")

\* a woken task that has not been polled yet
Runnable(r) ==
    \/ pc[r] = "building"
    \/ pc[r] = "sending" /\ permit[r]
    \/ pc[r] = "streaming" /\ (permit[r] \/ RateLimitReady(r))

\* an on_submit that keeps the exchange whatever the answer
KeepsAnswer_Always(assistant_message) == TRUE

\* `if _new_exchange.assistant_message.is_empty() { .. } else { .. }`
KeepsAnswer(assistant_message) == assistant_message # <<>>

max_key_NoIncrement(ks) ==
    IF ks = <<>> THEN 0
    ELSE CHOOSE m \in {ks[i] : i \in DOMAIN ks} : \A i \in DOMAIN ks : m >= ks[i]

\* `exchanges.into_iter().map(|(key, _)| *key + 1).max().unwrap_or(0)`
max_key(ks) ==
    IF ks = <<>> THEN 0
    ELSE CHOOSE m \in {ks[i] + 1 : i \in DOMAIN ks} : \A i \in DOMAIN ks : m >= ks[i] + 1

\* the list of (key, exchange) that the view hands to the commands
Keyed(ks, es) == [i \in DOMAIN ks |-> <<ks[i], es[i]>>]

\* ---- the stored conversations (tauri/src/main.rs) ----
Found(id, st) == {c \in st : c.uuid = id}

\* uuid::Uuid::new_v4(): an id that is in use nowhere
NewUuid(st) ==
    LET inuse == {c.uuid : c \in st} \cup {uuid[j] : j \in DOMAIN uuid}
                 \cup UNION {{calls[i].uuid[j] : j \in DOMAIN calls[i].uuid} : i \in DOMAIN calls}
                 \cup {0}
    IN  1 + CHOOSE m \in inuse : \A n \in inuse : m >= n

\* _add_conversation: bails on an empty list before anything is inserted; commits at the end
add_conversation(exch, st) ==
    IF exch = <<>> THEN [result |-> "Err", value |-> <<>>, store |-> st]
    ELSE [result |-> "Ok", value |-> <<NewUuid(st)>>,
          store |-> st \cup {[uuid |-> NewUuid(st), exchanges |-> exch]}]

\* _set_exchanges: a conversation that is not found is added; the exchanges of one that is
\* found are replaced; an error before the commit drops the transaction, which rolls back
set_exchanges(id, exch, st) ==
    IF Found(id, st) = {} THEN add_conversation(exch, st)
    ELSE IF exch = <<>> THEN [result |-> "Err", value |-> <<>>, store |-> st]
    ELSE [result |-> "Ok", value |-> <<>>,
          store |-> (st \ Found(id, st)) \cup {[uuid |-> id, exchanges |-> exch]}]

\* _delete_conversation
delete_conversation(id, st) ==
    IF Found(id, st) = {} THEN [result |-> "Err", value |-> <<>>, store |-> st]
    ELSE [result |-> "Ok", value |-> <<>>, store |-> st \ Found(id, st)]

\* order_by_asc(Key) on the exchanges of a conversation
OrderByKey(exch) ==
    LET rank(i) == Cardinality({j \in DOMAIN exch :
                       exch[j][1] < exch[i][1] \/ (exch[j][1] = exch[i][1] /\ j < i)})
    IN  [n \in DOMAIN exch |-> exch[CHOOSE i \in DOMAIN exch : rank(i) = n - 1]]

\* _load_exchanges
load_exchanges(id, st) ==
    IF Found(id, st) = {} THEN [result |-> "Err", value |-> <<>>, store |-> st]
    ELSE [result |-> "Ok", value |-> OrderByKey((CHOOSE c \in Found(id, st) : TRUE).exchanges),
          store |-> st]

\* what the command of call c does to the database st
Run(c, st) ==
    IF c.fn = "add_conversation" THEN add_conversation(c.exchanges, st)
    ELSE IF c.fn = "set_exchanges" THEN set_exchanges(c.uuid[1], c.exchanges, st)
    ELSE IF c.fn = "delete_conversation" THEN delete_conversation(c.uuid[1], st)
    ELSE load_exchanges(c.uuid[1], st)

\* the view's set_exchanges: with a conversation uuid it invokes set_exchanges, without
\* one add_conversation
ViewSave(id, exch) ==
    IF id # <<>> THEN [fn |-> "set_exchanges", uuid |-> id, exchanges |-> exch]
    ELSE [fn |-> "add_conversation", uuid |-> <<>>, exchanges |-> exch]

\* the end of on_submit's task for request q: the exchange is pushed and saved, or the
\* prompt is put back; streaming is set to false
OnSubmit_End(q, assistant_message) ==
    /\ IF KeepsAnswer(assistant_message)
       THEN /\ exchanges' = Append(exchanges, [user |-> q, assistant |-> assistant_message])
            /\ saved' = Append(exchanges, [user |-> q, assistant |-> assistant_message])
            /\ keys' = Append(keys, max_key(keys))
            /\ calls' = Append(calls, ViewSave(uuid,
                  Keyed(Append(keys, max_key(keys)),
                        Append(exchanges, [user |-> q, assistant |-> assistant_message]))))
            /\ UNCHANGED <<uuid, store>>
            /\ answer' = <<>>
            /\ UNCHANGED prompt
       ELSE /\ prompt' = q
            /\ answer' = assistant_message
            /\ UNCHANGED <<exchanges, saved, keys, uuid, calls, store>>
    /\ uiStreaming' = FALSE
    /\ cur' = 0

\* the view's "token" listeners handle frame number idx of request from (on_token and the
\* task that waits on close); an Err ends the view's collect_tokens, an End closes the stream
OnToken(f, from, idx) ==
    LET reading(q) == uiL[q] /\ uiPhase[q] = "collecting"
        ends(q) == reading(q) /\ f.kind \in {"End", "Err"}
    IN  /\ got' = [q \in Req |-> IF reading(q) THEN Append(got[q], <<from, idx>>) ELSE got[q]]
        /\ uiL' = [q \in Req |-> uiL[q] /\ f.kind # "End"]
        /\ uiPhase' = [q \in Req |-> IF ends(q) THEN "final" ELSE uiPhase[q]]
        /\ IF \E q \in Req : ends(q)
           THEN OnSubmit_End(CHOOSE q \in Req : ends(q), answer)
           ELSE /\ answer' = IF f.kind = "Text" /\ \E q \in Req : reading(q)
                             THEN Append(answer, f.txt) ELSE answer
                /\ UNCHANGED <<uiStreaming, cur, exchanges, prompt, saved, keys, uuid, calls, store>>

\* window.emit("token", tokens) by the task of request r
Emit(r, tokens, by, held, ok) ==
    /\ frames' = [frames EXCEPT ![r] = Append(@, tokens)]
    /\ last' = [last EXCEPT ![r] = [by |-> by, gap |-> clock[r], held |-> held, ok |-> ok]]
    /\ IF ok THEN OnToken(tokens, r, Len(frames[r]) + 1) ELSE UNCHANGED ui

\* the task leaves collect_tokens and unregisters its cancel listener
Leave(r, why, p) ==
    /\ pc' = [pc EXCEPT ![r] = "done"]
    /\ stop' = [stop EXCEPT ![r] = why]
    /\ permit' = [permit EXCEPT ![r] = p]
    /\ cancelL' = [cancelL EXCEPT ![r] = FALSE]
    /\ clock' = [clock EXCEPT ![r] = 0]
    /\ started' = [started EXCEPT ![r] = 0]
    /\ sleepFor' = [sleepFor EXCEPT ![r] = 0]
    /\ ready' = [ready EXCEPT ![r] = <<>>]
    /\ UNCHANGED <<prov, ret>>

\* the loop of collect_tokens starts its next iteration at clock value c
Continue(r, c) ==
    /\ clock' = [clock EXCEPT ![r] = c]
    /\ started' = [started EXCEPT ![r] = c]
    /\ sleepFor' = [sleepFor EXCEPT ![r] = SleepFor(c)]
    /\ ready' = [ready EXCEPT ![r] = <<>>]
    /\ UNCHANGED backend

\* ---- the view (ui/src/chat.rs) ----
\* on_submit: Submit is shown only while streaming is false; the command is invoked
OnSubmit(r) ==
    /\ ~uiStreaming
    /\ uiPhase[r] = "none"
    /\ \A q \in Req : q < r => uiPhase[q] # "none"
    /\ uiStreaming' = TRUE
    /\ cur' = r
    /\ uiPhase' = [uiPhase EXCEPT ![r] = "invoked"]
    /\ prompt' = 0
    /\ answer' = <<>>
    /\ pc' = [pc EXCEPT ![r] = "building"]
    /\ UNCHANGED <<exchanges, saved, keys, uuid, calls, store>>
    /\ UNCHANGED <<prov, stop, ret, permit, cancelL, uiL, got, frames, last, decoded, channel>>
    /\ UNCHANGED <<timing, cancelv, settings, extra>>

\* on_cancel: Cancel is shown only while streaming is true; emit("cancel") is asynchronous
OnCancel(cap) ==
    /\ uiStreaming
    /\ clicks < cap
    /\ Len(cancelQ) < MaxInFlight
    /\ cancelQ' = Append(cancelQ, cur)
    /\ clicks' = clicks + 1
    /\ UNCHANGED <<backend, timing, ui, frames, last, decoded, channel, cancels, settings, extra>>

\* the "cancel" event reaches the window: every registered listener calls notify_one
CancelDelivered ==
    /\ cancelQ # <<>>
    /\ cancelQ' = Tail(cancelQ)
    /\ permit' = [r \in Req |-> permit[r] \/ cancelL[r]]
    /\ cancels' = [r \in Req |->
          IF pc[r] = "idle" THEN cancels[r]
          ELSE Append(cancels[r], [n |-> Len(frames[r]), at |-> pc[r], for |-> Head(cancelQ)])]
    /\ UNCHANGED <<pc, prov, stop, ret, cancelL, clicks, frames, last, decoded, channel>>
    /\ UNCHANGED <<timing, ui, settings, extra>>

\* the view's build_token_stream gets the command's result
UiResult(r) ==
    /\ uiPhase[r] = "invoked"
    /\ ret[r] # "none"
    /\ IF ret[r] = "false"
       THEN /\ uiPhase' = [uiPhase EXCEPT ![r] = "listening"]
            /\ UNCHANGED <<uiStreaming, cur, answer, exchanges, prompt, saved, keys, uuid, calls, store>>
       ELSE /\ uiPhase' = [uiPhase EXCEPT ![r] = "final"]
            /\ OnSubmit_End(r, answer)
    /\ UNCHANGED <<uiL, got, frames, last, decoded, channel>>
    /\ UNCHANGED <<backend, timing, cancelv, settings, extra>>

\* listen("token", on_token) resolves
UiListen(r, ok) ==
    /\ uiPhase[r] = "listening"
    /\ IF ok
       THEN /\ uiL' = [uiL EXCEPT ![r] = TRUE]
            /\ uiPhase' = [uiPhase EXCEPT ![r] = "collecting"]
            /\ UNCHANGED <<uiStreaming, cur, answer, exchanges, prompt, saved, keys, uuid, calls, store>>
       ELSE /\ uiPhase' = [uiPhase EXCEPT ![r] = "final"]
            /\ OnSubmit_End(r, answer)
            /\ UNCHANGED uiL
    /\ UNCHANGED <<got, frames, last, decoded, channel>>
    /\ UNCHANGED <<backend, timing, cancelv, settings, extra>>


\* ---- the view's exchanges and their storage (ui/src/chat.rs) ----
\* exchanges.retain(|(_key, _)| key != *_key)
Retain(keyed, key) ==
    LET kept(e) == e[1] # key IN SelectSeq(keyed, kept)

KeysOf(keyed) == [i \in DOMAIN keyed |-> keyed[i][1]]
ExchangesOf(keyed) == [i \in DOMAIN keyed |-> keyed[i][2]]

\* on_delete of the exchange with this key: an emptied list deletes the conversation the
\* view has a uuid of, a shorter list is saved
OnDelete(key) ==
    /\ \E i \in DOMAIN keys : keys[i] = key
    /\ keys' = KeysOf(Retain(Keyed(keys, exchanges), key))
    /\ exchanges' = ExchangesOf(Retain(Keyed(keys, exchanges), key))
    /\ IF Retain(Keyed(keys, exchanges), key) = <<>>
       THEN /\ calls' = IF uuid # None
                        THEN Append(calls, [fn |-> "delete_conversation", uuid |-> uuid,
                                            exchanges |-> <<>>])
                        ELSE calls
            /\ UNCHANGED saved
       ELSE /\ calls' = Append(calls, ViewSave(uuid, Retain(Keyed(keys, exchanges), key)))
            /\ saved' = ExchangesOf(Retain(Keyed(keys, exchanges), key))
    /\ UNCHANGED <<uiStreaming, cur, uiPhase, uiL, got, answer, prompt, uuid, store>>
    /\ UNCHANGED <<backend, timing, cancelv, settings, extra, frames, last, decoded, channel>>

\* New is shown only while streaming is false: set_conversation_uuid(None), and the effect
\* on the uuid empties the list
OnNew ==
    /\ ~uiStreaming
    /\ uuid' = None
    /\ keys' = <<>>
    /\ exchanges' = <<>>
    /\ UNCHANGED <<uiStreaming, cur, uiPhase, uiL, got, answer, prompt, saved, calls, store>>
    /\ UNCHANGED <<backend, timing, cancelv, settings, extra, frames, last, decoded, channel>>

\* the i-th pending command of the view runs and returns to the task that awaits it:
\* set_exchanges takes over a new uuid untracked, add_conversation sets the uuid, on which
\* the effect loads the exchanges, load_exchanges replaces the list
Returns(i) ==
    LET c == calls[i]
        out == Run(c, store)
        rest == [n \in 1..(Len(calls) - 1) |-> IF n < i THEN calls[n] ELSE calls[n + 1]]
    IN  /\ i \in DOMAIN calls
        /\ store' = out.store
        /\ fin' = c
        /\ fout' = <<out.result>>
        /\ IF out.result = "Ok" /\ c.fn = "add_conversation"
           THEN /\ uuid' = out.value
                /\ calls' = Append(rest, [fn |-> "load_exchanges", uuid |-> out.value,
                                          exchanges |-> <<>>])
                /\ UNCHANGED <<keys, exchanges>>
           ELSE IF out.result = "Ok" /\ c.fn = "set_exchanges" /\ out.value # <<>>
           THEN /\ uuid' = out.value
                /\ calls' = rest
                /\ UNCHANGED <<keys, exchanges>>
           ELSE IF out.result = "Ok" /\ c.fn = "load_exchanges"
           THEN /\ keys' = KeysOf(out.value)
                /\ exchanges' = ExchangesOf(out.value)
                /\ calls' = rest
                /\ UNCHANGED uuid
           ELSE /\ calls' = rest
                /\ UNCHANGED <<keys, exchanges, uuid>>
        /\ UNCHANGED <<uiStreaming, cur, uiPhase, uiL, got, answer, prompt, saved>>
        /\ UNCHANGED <<backend, timing, cancelv, settings, frames, last, decoded, channel>>
        /\ UNCHANGED <<chain, counter, status>>

\* a command invoked from elsewhere (another window)
Invoke(c) ==
    /\ store' = Run(c, store).store
    /\ fin' = c
    /\ fout' = <<Run(c, store).result>>
    /\ UNCHANGED <<uiStreaming, cur, uiPhase, uiL, got, answer, exchanges, prompt, saved>>
    /\ UNCHANGED <<keys, uuid, calls, chain, counter, status>>
    /\ UNCHANGED <<backend, timing, cancelv, settings, frames, last, decoded, channel>>

\* ---- the command (tauri/src/fetch_tokens.rs) ----
\* build_token_stream up to window.listen("cancel", ..)
BuildTokenStream_Begin(r, api_key, nkeys, header_ok, p) ==
    /\ pc[r] = "building"
    /\ IF SelectKey(api_key, nkeys) # "ok" \/ ~header_ok
       THEN /\ pc' = [pc EXCEPT ![r] = "done"]
            /\ stop' = [stop EXCEPT ![r] =
                  IF SelectKey(api_key, nkeys) # "ok" THEN "config" ELSE "construct"]
            /\ ret' = [ret EXCEPT ![r] = "Err"]
            /\ UNCHANGED <<prov, cancelL>>
       ELSE /\ pc' = [pc EXCEPT ![r] = "sending"]
            /\ prov' = [prov EXCEPT ![r] = p]
            /\ cancelL' = [cancelL EXCEPT ![r] = TRUE]
            /\ UNCHANGED <<stop, ret>>
    /\ UNCHANGED <<permit, frames, last, decoded, channel>>
    /\ UNCHANGED <<timing, cancelv, settings, extra, ui>>

\* `response.status() != reqwest::StatusCode::OK` is false
StatusOk(code) == code = OK

\* request.send() wins the select; status check; the task is spawned and Ok(false) returned
BuildTokenStream_Sent(r, outcome) ==
    /\ pc[r] = "sending"
    /\ status' = [status EXCEPT ![r] = IF outcome.sent THEN <<outcome.status>> ELSE <<>>]
    /\ IF outcome.sent /\ StatusOk(outcome.status)
       THEN /\ pc' = [pc EXCEPT ![r] = "streaming"]
            /\ ret' = [ret EXCEPT ![r] = "false"]
            /\ UNCHANGED stop
       ELSE /\ pc' = [pc EXCEPT ![r] = "done"]
            /\ ret' = [ret EXCEPT ![r] = SendFailure(outcome)]
            /\ stop' = [stop EXCEPT ![r] = IF outcome.sent THEN "status" ELSE "transport"]
    /\ clock' = [clock EXCEPT ![r] = 0]
    /\ started' = [started EXCEPT ![r] = 0]
    /\ sleepFor' = [sleepFor EXCEPT ![r] =
          IF outcome.sent /\ StatusOk(outcome.status) THEN SleepFor(0) ELSE 0]
    /\ UNCHANGED <<prov, permit, cancelL, ready, frames, last, decoded, channel>>
    /\ UNCHANGED <<cancelv, settings, chain, counter, fin, fout, ui>>

\* cancel.notified() wins the select: return Ok(true)
BuildTokenStream_Canceled(r) ==
    /\ pc[r] = "sending"
    /\ permit[r]
    /\ permit' = [permit EXCEPT ![r] = FALSE]
    /\ pc' = [pc EXCEPT ![r] = "done"]
    /\ stop' = [stop EXCEPT ![r] = "canceled_send"]
    /\ ret' = [ret EXCEPT ![r] = "true"]
    /\ UNCHANGED <<prov, cancelL, frames, last, decoded, channel>>
    /\ UNCHANGED <<timing, cancelv, settings, extra, ui>>

\* ---- the upstream and the clock ----
\* the response yields its next item (or closes)
Arrive(r, u, cap) ==
    /\ pc[r] = "streaming"
    /\ ready[r] = <<>>
    /\ u = Closed \/ (u \in UnitsOf(prov[r]) /\ Len(frames[r]) < cap)
    /\ ready' = [ready EXCEPT ![r] =
          << [u |-> u, early |-> clock[r] - started[r] < sleepFor[r]] >>]
    /\ decoded' = [decoded EXCEPT ![r] =
          IF u = Closed \/ Decode(prov[r], u) = Text("") THEN @
          ELSE Append(@, Decode(prov[r], u))]
    /\ UNCHANGED <<clock, started, sleepFor, frames, last, channel>>
    /\ UNCHANGED <<backend, cancelv, settings, extra, ui>>

Tick(d) ==
    /\ \A r \in Req : ~Runnable(r)
    /\ \E r \in Req : pc[r] = "streaming" /\ clock[r] <= bottleneck
    /\ clock' = [r \in Req |->
          IF pc[r] = "streaming" /\ clock[r] <= bottleneck THEN clock[r] + d ELSE clock[r]]
    /\ UNCHANGED <<started, sleepFor, ready, frames, last, decoded, channel>>
    /\ UNCHANGED <<backend, cancelv, settings, extra, ui>>

\* ---- collect_tokens ----
\* the cancel branch of the select
CollectTokens_Cancel(r, ok) ==
    /\ pc[r] = "streaming"
    /\ permit[r]
    /\ IF CancelEmits = <<>>
       THEN UNCHANGED <<frames, last, ui>>
       ELSE Emit(r, CancelEmits[1], "cancel", FALSE, ok)
    /\ Leave(r, "cancel", FALSE)
    /\ UNCHANGED <<cancelv, settings, extra, decoded, channel>>

\* the rate_limit branch of the select
CollectTokens_Unit(r, ok) ==
    /\ pc[r] = "streaming"
    /\ RateLimitReady(r)
    /\ LET u == ready[r][1].u
           held == ready[r][1].early
           tokens == Decode(prov[r], u)
       IN  IF u.item = "closed"
           THEN /\ Emit(r, EndTok, "closed", held, ok)
                /\ Leave(r, "exhausted", permit[r])
           ELSE IF IsEmptyToken(tokens)
           THEN /\ ok
                /\ Continue(r, clock[r])
                /\ UNCHANGED <<frames, last, ui>>
           ELSE /\ Emit(r, tokens, "unit", held, ok)
                /\ IF ~ok THEN Leave(r, "emit", permit[r])
                   ELSE IF BreaksAfter(tokens) THEN Leave(r, "end", permit[r])
                   ELSE Continue(r, 0)
    /\ UNCHANGED <<cancelv, settings, extra, decoded, channel>>

\* ---- specifications ----
KeyChoice == {None} \cup {Some(i) : i \in 0..MaxKeys}
StatusCodes == {200, 204, 404}
\* what request.send() resolves to: an error, or a response with its status
SendOutcomes ==
    {[sent |-> FALSE, status |-> 0]} \cup {[sent |-> TRUE, status |-> c] : c \in StatusCodes}

\* one request, every provider, the clock in steps of TickMs
Next ==
    \/ \E r \in {1} : OnSubmit(r)
    \/ OnCancel(MaxCancels)
    \/ CancelDelivered
    \/ \E r \in {1} : UiResult(r)
    \/ \E r \in {1}, ok \in BOOLEAN : UiListen(r, ok)
    \/ \E r \in {1}, k \in KeyChoice, n \in 0..MaxKeys, h \in BOOLEAN, p \in Providers :
          BuildTokenStream_Begin(r, k, n, h, p)
    \/ \E r \in {1}, o \in SendOutcomes : BuildTokenStream_Sent(r, o)
    \/ \E r \in {1} : BuildTokenStream_Canceled(r)
    \/ \E r \in {1}, u \in OpenAIUnits \cup AnthropicUnits \cup GoogleUnits \cup {Closed} :
          Arrive(r, u, MaxFrames)
    \/ Tick(TickMs)
    \/ \E r \in {1}, ok \in BOOLEAN : CollectTokens_Cancel(r, ok)
    \/ \E r \in {1}, ok \in BOOLEAN : CollectTokens_Unit(r, ok)

Spec == Init /\ [][Next]_vars

\* the requests of one view, one after the other: OpenAI streams of text, undecodable and
\* [DONE] events, the clock in steps of bottleneck, every emit and listen succeeding
TwoUnits ==
    { Unit("message", "", FALSE, Plain("done")),
      Unit("message", "", FALSE, Json(FALSE, "t", Null, FALSE, Null, Null)),
      Unit("message", "", FALSE, Json(FALSE, Null, Null, FALSE, Null, Null)),
      Closed }

NextTwo ==
    \/ \E r \in Req : OnSubmit(r)
    \/ OnCancel(TwoCancels)
    \/ CancelDelivered
    \/ \E r \in Req : UiResult(r)
    \/ \E r \in Req : UiListen(r, TRUE)
    \/ \E r \in Req, k \in KeyChoice : BuildTokenStream_Begin(r, k, MaxKeys, TRUE, "OpenAI")
    \/ \E r \in Req, o \in SendOutcomes : BuildTokenStream_Sent(r, o)
    \/ \E r \in Req : BuildTokenStream_Canceled(r)
    \/ \E r \in Req, u \in TwoUnits : Arrive(r, u, TwoFrames)
    \/ Tick(bottleneck)
    \/ \E r \in Req : CollectTokens_Cancel(r, TRUE)
    \/ \E r \in Req : CollectTokens_Unit(r, TRUE)

SpecTwo == Init /\ [][NextTwo]_vars

\* one request to OpenAI under the scheduling of the runtime: select! takes each of its ready
\* branches with positive probability, so a cancel branch that stays ready is taken in the end
NextLive ==
    \/ \E r \in {1} : OnSubmit(r)
    \/ OnCancel(MaxCancels)
    \/ CancelDelivered
    \/ \E r \in {1} : UiResult(r)
    \/ \E r \in {1}, ok \in BOOLEAN : UiListen(r, ok)
    \/ \E r \in {1}, k \in KeyChoice : BuildTokenStream_Begin(r, k, MaxKeys, TRUE, "OpenAI")
    \/ \E r \in {1}, o \in SendOutcomes : BuildTokenStream_Sent(r, o)
    \/ \E r \in {1} : BuildTokenStream_Canceled(r)
    \/ \E r \in {1}, u \in TwoUnits : Arrive(r, u, MaxFrames)
    \/ Tick(TickMs)
    \/ \E r \in {1}, ok \in BOOLEAN : CollectTokens_Cancel(r, ok)
    \/ \E r \in {1}, ok \in BOOLEAN : CollectTokens_Unit(r, ok)

SpecLive == Init /\ [][NextLive]_vars /\ \A r \in {1} : WF_vars(\E ok \in BOOLEAN : CollectTokens_Cancel(r, ok))

\* ---- the earlier backend (src-tauri/src/fetch_tokens.rs, src-tauri/src/main.rs) ----
OldProviders == {"OpenAI", "Anthropic"}

\* interpret_message: None is the end of the response
interpret_message(message, provider) ==
    IF provider = "OpenAI"
    THEN IF message.data.form = "done" THEN EndTok
         ELSE IF message.data.form # "json" THEN ErrTok(ParseError)
         ELSE IF message.data.finish_reason THEN Text("")
         ELSE IF message.data.content # Null THEN Text(message.data.content)
         ELSE ErrTok(ParseError)
    ELSE IF message.event # "content_block_delta" THEN Text("")
         ELSE IF message.data.form = "json" /\ message.data.delta_text # Null
              THEN Text(message.data.delta_text)
         ELSE ErrTok(ParseError)

\* the events of the EventSource: Open, a message, StreamEnded, another error
OldEvents(p) ==
    {[ev |-> "Open", m |-> Closed], [ev |-> "StreamEnded", m |-> Closed], [ev |-> "Error", m |-> Closed]}
    \cup {[ev |-> "Message", m |-> u] : u \in UnitsOf(p) \ {IoError}}

OldToken(e, p) ==
    IF e.ev = "Open" THEN Text("")
    ELSE IF e.ev = "Message" THEN interpret_message(e.m, p)
    ELSE IF e.ev = "StreamEnded" THEN EndTok
    ELSE ErrTok("<transport>")

\* config.api_keys[config.api_key.ok_or(..)?]: indexing out of bounds panics
IndexKey(api_key, nkeys) ==
    IF api_key = None THEN "No API Key selected."
    ELSE IF api_key[1] < nkeys THEN "ok"
    ELSE "panic"

\* the command _build_token_stream of the earlier backend, invoked for request r
BuildTokenStream_Indexed(r, api_key, nkeys, header_ok, p) ==
    /\ pc[r] = "idle"
    /\ \A q \in Req : q < r => pc[q] # "idle"
    /\ IF IndexKey(api_key, nkeys) = "panic"
       THEN /\ pc' = [pc EXCEPT ![r] = "done"]
            /\ stop' = [stop EXCEPT ![r] = "panic"]
            /\ UNCHANGED <<ret, prov>>
       ELSE IF IndexKey(api_key, nkeys) # "ok" \/ ~header_ok
       THEN /\ pc' = [pc EXCEPT ![r] = "done"]
            /\ stop' = [stop EXCEPT ![r] = IF IndexKey(api_key, nkeys) # "ok" THEN "config" ELSE "construct"]
            /\ ret' = [ret EXCEPT ![r] = "Err"]
            /\ UNCHANGED prov
       ELSE /\ pc' = [pc EXCEPT ![r] = "streaming"]
            /\ prov' = [prov EXCEPT ![r] = p]
            /\ ret' = [ret EXCEPT ![r] = "Ok"]
            /\ UNCHANGED stop
    /\ UNCHANGED <<permit, cancelL, frames, last, decoded, channel>>
    /\ UNCHANGED <<timing, cancelv, settings, extra, ui>>

\* one turn of the loop of the task spawned by the earlier build_token_stream
OldTask_Event(r, e, cap) ==
    /\ pc[r] = "streaming"
    /\ e \in OldEvents(prov[r])
    /\ e.ev = "StreamEnded" \/ Len(frames[r]) < cap
    /\ channel' = Append(channel, [from |-> r, tok |-> OldToken(e, prov[r])])
    /\ frames' = [frames EXCEPT ![r] = Append(@, OldToken(e, prov[r]))]
    /\ IF OldToken(e, prov[r]) = EndTok
       THEN /\ pc' = [pc EXCEPT ![r] = "done"]
            /\ stop' = [stop EXCEPT ![r] = "end"]
       ELSE UNCHANGED <<pc, stop>>
    /\ UNCHANGED <<prov, ret, permit, cancelL, last, decoded>>
    /\ UNCHANGED <<timing, cancelv, settings, extra, ui>>

\* the command fetch_tokens takes the next item of CHANNEL
FetchTokens ==
    /\ channel # <<>>
    /\ channel' = Tail(channel)
    /\ UNCHANGED <<backend, timing, cancelv, settings, extra, ui, frames, last, decoded>>

NextIndexed ==
    \/ \E r \in Req, k \in KeyChoice, n \in 0..MaxKeys, h \in BOOLEAN, p \in OldProviders :
          BuildTokenStream_Indexed(r, k, n, h, p)
    \/ \E r \in Req, p \in OldProviders : \E e \in OldEvents(p) : OldTask_Event(r, e, TwoFrames)
    \/ FetchTokens

SpecIndexed == Init /\ [][NextIndexed]_vars

\* ---- the settings' key list (ui/src/settings.rs, KeyList) ----
\* the names typed into the Name field, and what str::trim makes of them
RawNames == {"", " ", "a", " a", "b", "c"}
Trim(name) ==
    IF name \in {"", " "} THEN ""
    ELSE IF name \in {"a", " a"} THEN "a"
    ELSE name

\* iter().position(|key| key.name == name)
Position(api_keys, name) ==
    IF \E i \in DOMAIN api_keys : api_keys[i] = name
    THEN Some((CHOOSE i \in DOMAIN api_keys :
                  api_keys[i] = name /\ \A j \in 1..(i - 1) : api_keys[j] # name) - 1)
    ELSE None

Remove_Last(api_keys, key_index) == SubSeq(api_keys, 1, Len(api_keys) - 1)

\* Vec::remove(key_index)
Remove(api_keys, key_index) ==
    SubSeq(api_keys, 1, key_index) \o SubSeq(api_keys, key_index + 2, Len(api_keys))

\* an on_remove that leaves config.api_key as it is
AfterRemove_Kept(api_key, key_index) == api_key

\* on_remove: config.api_key once the key at key_index is removed
AfterRemove(api_key, key_index) ==
    IF api_key = None THEN None
    ELSE IF api_key[1] = key_index THEN None
    ELSE IF api_key[1] > key_index THEN Some(api_key[1] - 1)
    ELSE api_key

streamv == <<backend, timing, cancelv, ui, frames, last, decoded, channel, extra>>

\* the "-" button of the entry of the key called name
OnRemove(name) ==
    /\ \E i \in DOMAIN config.api_keys : config.api_keys[i] = name
    /\ LET key_index == Position(config.api_keys, name)[1]
       IN  /\ config' = [config EXCEPT !.api_key = AfterRemove(config.api_key, key_index),
                                        !.api_keys = Remove(config.api_keys, key_index)]
           /\ lastOp' = [op |-> "remove", index |-> key_index, before |-> config.api_key]
    /\ UNCHANGED <<new_key, streamv, applyv>>

Rejects_Never(name, api_keys) == FALSE

\* on_add: `name.is_empty()`, or `api_keys.iter().any(|api_key| api_key.name == name)`
Rejects(name, api_keys) ==
    name = "" \/ \E i \in DOMAIN api_keys : api_keys[i] = name

\* the "Add" button; a rejected name sets the error and returns
OnAdd ==
    /\ IF new_key = None
       THEN /\ new_key' = Some("")
            /\ UNCHANGED <<config, lastOp>>
       ELSE IF Rejects(Trim(new_key[1]), config.api_keys)
       THEN /\ lastOp' = [op |-> "add_error", index |-> Len(config.api_keys),
                          before |-> config.api_key]
            /\ UNCHANGED <<config, new_key>>
       ELSE /\ new_key' = None
            /\ config' = [config EXCEPT !.api_keys = Append(@, Trim(new_key[1]))]
            /\ lastOp' = [op |-> "add", index |-> Len(config.api_keys), before |-> config.api_key]
    /\ UNCHANGED <<streamv, applyv>>

\* the radio button of the entry of the key called name: set_selected_key(Some(name))
SetSelectedKey(name) ==
    /\ \E i \in DOMAIN config.api_keys : config.api_keys[i] = name
    /\ config' = [config EXCEPT !.api_key = Position(config.api_keys, name)]
    /\ lastOp' = [op |-> "select", index |-> Position(config.api_keys, name)[1],
                  before |-> config.api_key]
    /\ UNCHANGED <<new_key, streamv, applyv>>

\* typing into the Name field of the new key
NewKeyName(name) ==
    /\ new_key # None
    /\ new_key' = Some(name)
    /\ UNCHANGED <<config, lastOp, streamv, applyv>>

\* the "Cancel" button of the new key
NewKeyCancel ==
    /\ new_key # None
    /\ new_key' = None
    /\ UNCHANGED <<config, lastOp, streamv, applyv>>

NextSettings ==
    \/ \E name \in RawNames : OnRemove(name)
    \/ OnAdd
    \/ \E name \in RawNames : SetSelectedKey(name)
    \/ \E name \in RawNames : NewKeyName(name)
    \/ NewKeyCancel

SpecSettings == Init /\ [][NextSettings]_vars

\* ---- the settings' Apply and Discard (ui/src/settings.rs, Settings) ----
Digits == <<"0", "1", "2", "3", "4", "5", "6", "7", "8", "9">>
IsDigit(c) == \E i \in DOMAIN Digits : Digits[i] = c
DigitValue(c) == (CHOOSE i \in DOMAIN Digits : Digits[i] = c) - 1

\* the decimal numeral of the number a digit string denotes
Numeral(ds) ==
    LET nz == {i \in DOMAIN ds : ds[i] # "0"}
    IN  IF nz = {} THEN <<"0">>
        ELSE SubSeq(ds, CHOOSE i \in nz : \A j \in nz : i <= j, Len(ds))

\* a > b, of numerals
Greater(a, b) ==
    \/ Len(a) > Len(b)
    \/ /\ Len(a) = Len(b)
       /\ \E i \in DOMAIN a :
             /\ \A j \in 1..(i - 1) : a[j] = b[j]
             /\ DigitValue(a[i]) > DigitValue(b[i])

\* u32::MAX
u32_MAX == <<"4", "2", "9", "4", "9", "6", "7", "2", "9", "5">>

\* a parse that takes the digits it finds
parse_u32_Lenient(src) ==
    LET ds == SelectSeq(src, IsDigit)
    IN  [ok |-> TRUE, value |-> IF ds = <<>> THEN <<"0">> ELSE Numeral(ds), error |-> ""]

\* str::parse::<u32>(): an optional "+", then digits read from the left; the first digit
\* that is none, or that takes the number past u32::MAX, is the error
parse_u32(src) ==
    IF src = <<>>
    THEN [ok |-> FALSE, value |-> <<>>, error |-> "cannot parse integer from empty string"]
    ELSE IF src \in {<<"+">>, <<"-">>}
    THEN [ok |-> FALSE, value |-> <<>>, error |-> "invalid digit found in string"]
    ELSE LET digits == IF src[1] = "+" THEN Tail(src) ELSE src
             read(i) == \A j \in 1..i : IsDigit(digits[j])
             fails(i) == ~IsDigit(digits[i])
                         \/ (read(i) /\ Greater(Numeral(SubSeq(digits, 1, i)), u32_MAX))
             errs == {i \in DOMAIN digits : fails(i)}
             first == CHOOSE i \in errs : \A j \in errs : i <= j
         IN  IF errs = {}
             THEN [ok |-> TRUE, value |-> Numeral(digits), error |-> ""]
             ELSE IF ~IsDigit(digits[first])
             THEN [ok |-> FALSE, value |-> <<>>, error |-> "invalid digit found in string"]
             ELSE [ok |-> FALSE, value |-> <<>>,
                   error |-> "number too large to fit in target type"]

\* u32::to_string(): the decimal numeral
to_string(n) == Numeral(n)

\* what is typed into the max-tokens field
MaxTokensTexts ==
    { <<>>, <<"7">>, <<"0", "7">>, <<"+", "7">>, <<"-", "7">>, <<" ", "7">>,
      <<"7", ".", "5">>, <<"+">>,
      u32_MAX, <<"4", "2", "9", "4", "9", "6", "7", "2", "9", "6">>,
      <<"9", "9", "9", "9", "9", "9", "9", "9", "9", "9", "a">> }

\* on_input of the max-tokens field
OnInput(text) ==
    /\ max_tokens' = text
    /\ UNCHANGED <<active_config, saved_config, error, pending, disk, applies>>
    /\ UNCHANGED <<config, new_key, lastOp, streamv>>

\* on_apply: a text that does not parse sets the error and returns; otherwise the edited
\* config takes the number, becomes the active config and is saved
OnApply ==
    /\ applies' = applies + 1
    /\ IF ~parse_u32(max_tokens).ok
       THEN /\ error' = parse_u32(max_tokens).error
            /\ UNCHANGED <<config, active_config, pending>>
       ELSE /\ config' = [config EXCEPT !.max_tokens = parse_u32(max_tokens).value]
            /\ active_config' = [config EXCEPT !.max_tokens = parse_u32(max_tokens).value]
            /\ pending' = Append(pending,
                  [fn |-> "save_config",
                   config |-> [config EXCEPT !.max_tokens = parse_u32(max_tokens).value]])
            /\ UNCHANGED error
    /\ UNCHANGED <<max_tokens, saved_config, disk>>
    /\ UNCHANGED <<new_key, lastOp, streamv>>

\* on_discard
OnDiscard ==
    /\ IF saved_config # <<>>
       THEN /\ config' = saved_config[1]
            /\ max_tokens' = to_string(saved_config[1].max_tokens)
            /\ active_config' = saved_config[1]
            /\ UNCHANGED error
       ELSE /\ error' = "Bad config."
            /\ UNCHANGED <<config, max_tokens, active_config>>
    /\ UNCHANGED <<saved_config, pending, disk, applies>>
    /\ UNCHANGED <<new_key, lastOp, streamv>>

\* the command load_config: a missing file is written with the default config
load_config(file) == IF file = <<>> THEN DefaultConfig ELSE file[1]

\* the i-th outstanding config command returns: the load of the start fills the settings,
\* save_config writes the file, on which the settings reload the saved config
ConfigReturns(i, ok) ==
    LET c == pending[i]
        rest == [n \in 1..(Len(pending) - 1) |-> IF n < i THEN pending[n] ELSE pending[n + 1]]
    IN  /\ i \in DOMAIN pending
        /\ IF ~ok
           THEN /\ error' = "io"
                /\ pending' = rest
                /\ UNCHANGED <<config, max_tokens, active_config, saved_config, disk>>
           ELSE IF c.fn = "load_config"
           THEN /\ config' = load_config(disk)
                /\ max_tokens' = to_string(load_config(disk).max_tokens)
                /\ active_config' = load_config(disk)
                /\ saved_config' = <<load_config(disk)>>
                /\ disk' = <<load_config(disk)>>
                /\ pending' = rest
                /\ UNCHANGED error
           ELSE IF c.fn = "save_config"
           THEN /\ disk' = <<c.config>>
                /\ saved_config' = <<c.config>>
                /\ error' = ""
                /\ pending' = Append(rest, [fn |-> "config_updated", config |-> c.config])
                /\ UNCHANGED <<config, max_tokens, active_config>>
           ELSE /\ saved_config' = <<load_config(disk)>>
                /\ disk' = <<load_config(disk)>>
                /\ pending' = rest
                /\ UNCHANGED <<config, max_tokens, active_config, error>>
        /\ UNCHANGED <<applies, new_key, lastOp, streamv>>

InitApply == Init

\* the settings; of the key list, a key called "a" is added
NextApply ==
    \/ \E text \in MaxTokensTexts : OnInput(text)
    \/ applies < MaxApply /\ OnApply
    \/ OnDiscard
    \/ \E i \in DOMAIN pending, ok \in BOOLEAN : ConfigReturns(i, ok)
    \/ OnAdd
    \/ \E name \in {"a"} : NewKeyName(name)

SpecApply == InitApply /\ [][NextApply]_vars


\* ---- properties ----
IsTerminal(f) == f.kind \in {"End", "Err"}
Terminals(F) == {i \in DOMAIN F : IsTerminal(F[i])}
Ends(F) == {i \in DOMAIN F : F[i].kind = "End"}

\* no cancel event reached request r and its latest emit succeeded
Undisturbed(r) == cancels[r] = <<>> /\ last[r].ok

\* C1: once an Err frame has been emitted for a request, no further frame of any kind is
\* emitted for it: an Err frame is the last frame of its request (stated for the requests
\* that no cancel event reached).
C1_NoFrameAfterErr ==
    \A r \in Req : Undisturbed(r) =>
        \A i \in DOMAIN frames[r] : frames[r][i].kind = "Err" => i = Len(frames[r])

\* C2: a request that streamed and ended (end parsed, stream exhausted, cancel) has emitted
\* exactly one terminal frame, End or Err, and that frame is its last frame (stated for the
\* requests whose emits all succeeded).
C2_OneTerminalLast ==
    \A r \in Req : (last[r].ok /\ stop[r] \in {"end", "exhausted", "cancel"}) =>
        /\ Cardinality(Terminals(frames[r])) = 1
        /\ Terminals(frames[r]) = {Len(frames[r])}

\* C3: an End frame is the last frame of its request and the task has stopped once it is
\* emitted; a task that stopped on a decoded end or on exhaustion emitted exactly one End.
C3_EndOnceLast ==
    \A r \in Req :
        /\ \A i \in Ends(frames[r]) : i = Len(frames[r]) /\ pc[r] = "done"
        /\ stop[r] \in {"end", "exhausted"} =>
              /\ Cardinality(Ends(frames[r])) = 1
              /\ last[r].by \in {"unit", "closed"}

\* a task stopped on a decoded end after an earlier frame
C3_Witness ==
    \E r \in Req : stop[r] = "end" /\ Len(frames[r]) >= 2 /\ Ends(frames[r]) = {Len(frames[r])}

\* C4: a cancel delivered to a streaming request that has emitted N Text frames and no
\* terminal frame is followed by exactly one End and nothing else: N + 1 frames in all.
C4_CancelAfterN ==
    \A r \in Req : \A j \in DOMAIN cancels[r] :
        LET c == cancels[r][j]
            F == frames[r]
        IN  (last[r].ok /\ c.at = "streaming" /\ \A i \in 1..c.n : F[i].kind = "Text") =>
                /\ Len(F) <= c.n + 1
                /\ \A i \in (c.n + 1)..Len(F) : F[i].kind = "End"
                /\ pc[r] = "done" => Len(F) = c.n + 1

\* a cancel was delivered, while the request was sending or streaming, before any Text frame
CancelBeforeText(r) ==
    \E j \in DOMAIN cancels[r] :
        /\ cancels[r][j].at \in {"sending", "streaming"}
        /\ \A i \in 1..cancels[r][j].n : frames[r][i].kind # "Text"

C6_NoCancelLost ==
    \A r \in Req :
        (last[r].ok /\ \E j \in DOMAIN cancels[r] : cancels[r][j].at \in {"building", "sending"}) =>
            /\ \A i \in DOMAIN frames[r] : frames[r][i].kind = "End"
            /\ stop[r] \notin {"end", "exhausted", "emit"}

\* C7: cancel is idempotent and inert after completion: a request emits at most one End, and
\* a cancel delivered after its terminal frame is followed by no frame.
C7_CancelInert ==
    \A r \in Req : last[r].ok =>
        /\ Cardinality(Ends(frames[r])) <= 1
        /\ \A j \in DOMAIN cancels[r] :
              (\E i \in 1..cancels[r][j].n : IsTerminal(frames[r][i])) =>
                  Len(frames[r]) = cancels[r][j].n

\* C8: every frame handled by the token stream the view built for a request was emitted by
\* the task of that request (stated for the runs in which no cancel event is delivered).
C8_OwnFramesOnly ==
    (\A r \in Req : cancels[r] = <<>>) =>
        \A q \in Req : \A i \in DOMAIN got[q] : got[q][i][1] = q

\* C9: a request is ended by cancel only when a cancel was fired for that request.
C9_CancelScoped ==
    \A r \in Req :
        stop[r] \in {"cancel", "canceled_send"} =>
            \E j \in DOMAIN cancels[r] : cancels[r][j].for = r

\* C10 as stated: every frame after the first follows the previous frame of its request by
\* at least bottleneck ms, whatever its kind.
C10_AllGaps ==
    \A r \in Req : (last[r].ok /\ Len(frames[r]) >= 2) => last[r].gap >= bottleneck

\* C10 amended: every frame after the first that comes from the token stream (a decoded
\* item or the End of exhaustion) follows the previous frame by at least bottleneck ms; the
\* End of the cancel branch is not rate limited.
C10_StreamGaps ==
    \A r \in Req :
        (Len(frames[r]) >= 2 /\ last[r].by # "cancel") => last[r].gap >= bottleneck

\* an item that was ready before the sleep had elapsed was emitted after it
C10_Witness ==
    \E r \in Req :
        /\ Len(frames[r]) >= 2
        /\ last[r].by = "unit"
        /\ last[r].held
        /\ last[r].gap >= bottleneck

\* C11: when at least bottleneck ms have elapsed since the last emitted frame at the moment
\* the next unit is ready, rate_limit adds no delay: the rate_limit future is ready at once
\* (the task is polled before time advances); the sleep it joins lasts
\* max(0, bottleneck - elapsed), elapsed taken when the future is first polled.
C11_NoAddedDelay ==
    \A r \in Req : pc[r] = "streaming" =>
        /\ (ready[r] # <<>> /\ clock[r] >= bottleneck) => RateLimitReady(r)
        /\ sleepFor[r] = (IF started[r] >= bottleneck THEN 0 ELSE bottleneck - started[r])
        /\ (ready[r] # <<>> /\ ~ready[r][1].early) => RateLimitReady(r)

\* a unit that became ready more than bottleneck ms after the previous frame is pending,
\* and such a unit has been emitted without having been held
C11_Witness ==
    \E r \in Req :
        /\ Len(frames[r]) >= 1
        /\ last[r].by = "unit"
        /\ ~last[r].held
        /\ last[r].gap > bottleneck

IsText(f) == f.kind = "Text"
Texts(F) == SelectSeq(F, IsText)
\* the items of D before its first terminal item
UpToTerminal(D) ==
    IF Terminals(D) = {} THEN D
    ELSE SubSeq(D, 1, (CHOOSE i \in Terminals(D) : \A j \in Terminals(D) : i <= j) - 1)

\* C12: the Text frames delivered for a request are exactly the non-empty texts the decoder
\* produced, in decode order, up to the terminating event (stated for the requests that no
\* cancel event reached, whose stream ended or was exhausted and whose emits succeeded).
C12_TextsUpToTerminal ==
    \A r \in Req : (Undisturbed(r) /\ stop[r] \in {"end", "exhausted"}) =>
        Texts(frames[r]) = Texts(UpToTerminal(decoded[r]))

\* the task of request r takes an empty token from the stream (the rate_limit branch of
\* its select, not the cancel branch)
KeepAliveStep(r) ==
    /\ pc[r] = "streaming"
    /\ RateLimitReady(r)
    /\ ready[r][1].u.item = "ok"
    /\ Decode(prov[r], ready[r][1].u) = Text("")
    /\ ready'[r] = <<>>
    /\ stop'[r] # "cancel"

\* C13: an empty token is never passed to window.emit; the step that takes it leaves the
\* frames, the latest emit and the time since last_event_timestamp as they are, the task
\* stays in its loop, and the sleep of its next rate_limit has already elapsed (the empty
\* token does not delay the next frame).
C13_KeepAliveSwallowed ==
    /\ [](\A r \in Req : \A i \in DOMAIN frames[r] : frames[r][i] # Text(""))
    /\ [][\A r \in Req : KeepAliveStep(r) =>
            /\ frames'[r] = frames[r]
            /\ last'[r] = last[r]
            /\ clock'[r] = clock[r]
            /\ pc'[r] = "streaming"
            /\ clock'[r] - started'[r] >= sleepFor'[r]]_vars

\* after a frame, an empty token has been taken and the next unit, not empty, is pending
C13_Witness ==
    \E r \in Req :
        /\ pc[r] = "streaming"
        /\ Len(frames[r]) >= 1
        /\ started[r] >= bottleneck
        /\ ready[r] # <<>>
        /\ ready[r][1].u.item = "ok"
        /\ Decode(prov[r], ready[r][1].u).kind = "Text"
        /\ Decode(prov[r], ready[r][1].u) # Text("")

C15_SelectionNeverFaults ==
    \A r \in Req :
        /\ stop[r] # "panic"
        /\ stop[r] = "config" => ret[r] = "Err" /\ frames[r] = <<>> /\ ~cancelL[r] /\ pc[r] = "done"

\* the lifecycle state of request r, by what the backend has done for it
Lifecycle(r) ==
    IF pc[r] = "idle" THEN "Idle"
    ELSE IF ret[r] = "Err" \/ stop[r] = "emit" \/ \E i \in DOMAIN frames[r] : frames[r][i].kind = "Err"
         THEN "Failed"
    ELSE IF stop[r] \in {"cancel", "canceled_send"} THEN "Canceled"
    ELSE IF stop[r] \in {"end", "exhausted"} THEN "Completed"
    ELSE IF pc[r] = "streaming" THEN "Streaming"
    ELSE "Sending"

LifecycleSteps ==
    {<<"Idle", "Sending">>, <<"Sending", "Streaming">>, <<"Sending", "Failed">>,
     <<"Sending", "Canceled">>, <<"Streaming", "Completed">>, <<"Streaming", "Canceled">>,
     <<"Streaming", "Failed">>}

\* C16: a request moves only along Idle -> Sending -> Streaming -> {Completed, Canceled,
\* Failed} (a request may fail or be canceled while sending), and the three terminal states
\* are final: a request in one of them changes state no more and emits nothing (stated for
\* the requests that no cancel event reached).
C16_LifecycleFinal ==
    [][\A r \in Req : cancels'[r] = <<>> =>
          /\ Lifecycle(r)' # Lifecycle(r) => <<Lifecycle(r), Lifecycle(r)'>> \in LifecycleSteps
          /\ Lifecycle(r) \in {"Completed", "Canceled", "Failed"} =>
                /\ Lifecycle(r)' = Lifecycle(r)
                /\ frames'[r] = frames[r]]_vars

\* C17: a stalled upstream is ended only by cancel or by closure.  While request r is
\* streaming and its stream has nothing to yield, a step without a cancel to take neither
\* emits a frame nor leaves streaming, and a step of its task with a cancel to take emits
\* End and stops; and a streaming task with a cancel to take does stop in the end.
C17_StallEndsByCancel ==
    /\ [][\A r \in Req : (pc[r] = "streaming" /\ ready[r] = <<>>) =>
            IF permit[r]
            THEN (frames'[r] # frames[r] \/ pc'[r] # pc[r]) =>
                    /\ frames'[r] = Append(frames[r], EndTok)
                    /\ pc'[r] = "done"
                    /\ stop'[r] = "cancel"
            ELSE frames'[r] = frames[r] /\ pc'[r] = "streaming"]_vars
    /\ \A r \in Req : (pc[r] = "streaming" /\ permit[r]) ~> (pc[r] = "done")

\* a cancel delivered while the stream had nothing to yield, sleep elapsed, ended the request
C17_Witness ==
    \E r \in Req :
        /\ stop[r] = "cancel"
        /\ \E j \in DOMAIN cancels[r] : cancels[r][j].at = "streaming" /\ cancels[r][j].n >= 1
        /\ last[r].by = "cancel"
        /\ last[r].gap > bottleneck

\* the texts of the Text frames among the frames G (<<from, index>>) of the emitted frames F
TextsOf(G, F) ==
    LET isText(g) == F[g[1]][g[2]].kind = "Text"
        S == SelectSeq(G, isText)
    IN  [i \in 1..Len(S) |-> F[S[i][1]][S[i][2]].txt]

\* the view's task for request q ends
Finishes(q) == uiPhase[q] # "final" /\ uiPhase'[q] = "final"

C19_OneInFlight ==
    [][\A r \in Req : (frames'[r] # frames[r] /\ cancels[r] = <<>>) =>
          \A q \in Req : q > r => pc[q] = "idle"]_vars

\* C20: after any sequence of adding a key, removing a key and selecting a key by name,
\* config.api_key is None or smaller than len(config.api_keys).
C20_ApiKeyInRange ==
    config.api_key = None \/ config.api_key[1] < Len(config.api_keys)

\* a key listed before the selected key has been removed, and the selection moved with it
C20_Witness ==
    /\ lastOp.op = "remove"
    /\ lastOp.before # None
    /\ lastOp.before[1] > lastOp.index
    /\ config.api_key = Some(lastOp.before[1] - 1)
    /\ Len(config.api_keys) = config.api_key[1] + 1

\* ---------------------------------------------------------------------------------------
\* Request bodies (src/tauri/src/fetch_tokens.rs, build_*_request_body and build_request).
\* A JSON object is a record, a JSON array a sequence, a model name a sequence of characters.
\* max_tokens and temperature are copied through unchanged by the code and are left out.
\* ---------------------------------------------------------------------------------------

MaxHistory == 2

Prompts == {"p", "u"}
UserMessages == {"u", "v"}
AssistantMessages == {"a", "b"}
SystemPrompts == {"", "s"}
ModelNames == {<<>>, <<"o">>, <<"o", "1">>, <<"o", "1", "-", "m">>, <<"g", "o", "1">>}

Exchange == [user_message : UserMessages, assistant_message : AssistantMessages]

Histories == UNION {[1..n -> Exchange] : n \in 0..MaxHistory}

Configs == [system_prompt : SystemPrompts, model : ModelNames]

\* str::starts_with
StartsWith(s, prefix) ==
    /\ Len(s) >= Len(prefix)
    /\ \A i \in 1..Len(prefix) : s[i] = prefix[i]

o1 == <<"o", "1">>

RECURSIVE FlatMap(_, _)
\* Iterator::flat_map over the exchanges: the items of f(exchange), exchange by exchange
FlatMap(exch, f) ==
    IF exch = <<>> THEN <<>>
    ELSE f[Head(exch)] \o FlatMap(Tail(exch), f)

build_openai_request_body(cfg, exch, prmpt) ==
    LET system == IF cfg.system_prompt # ""
                  THEN <<[role |-> "system", content |-> cfg.system_prompt]>>
                  ELSE <<>>
        pair == [e \in Exchange |->
                    <<[role |-> "user", content |-> e.user_message],
                      [role |-> "assistant", content |-> e.assistant_message]>>]
    IN  [model |-> cfg.model,
         stream |-> ~StartsWith(cfg.model, o1),
         messages |-> system \o FlatMap(exch, pair)
                         \o <<[role |-> "user", content |-> prmpt]>>]

build_anthropic_request_body_AssistantFirst(cfg, exch, prmpt) ==
    LET pair == [e \in Exchange |->
                    <<[role |-> "assistant", content |-> e.assistant_message],
                      [role |-> "user", content |-> e.user_message]>>]
    IN  [model |-> cfg.model,
         stream |-> TRUE,
         system |-> cfg.system_prompt,
         messages |-> FlatMap(exch, pair) \o <<[role |-> "user", content |-> prmpt]>>]

build_anthropic_request_body(cfg, exch, prmpt) ==
    LET pair == [e \in Exchange |->
                    <<[role |-> "user", content |-> e.user_message],
                      [role |-> "assistant", content |-> e.assistant_message]>>]
    IN  [model |-> cfg.model,
         stream |-> TRUE,
         system |-> cfg.system_prompt,
         messages |-> FlatMap(exch, pair) \o <<[role |-> "user", content |-> prmpt]>>]

build_google_request_body(cfg, exch, prmpt) ==
    LET pair == [e \in Exchange |->
                    <<[role |-> "user", parts |-> <<[text |-> e.user_message]>>],
                      [role |-> "model", parts |-> <<[text |-> e.assistant_message]>>]>>]
    IN  [system_instruction |-> [parts |-> <<[text |-> cfg.system_prompt]>>],
         contents |-> FlatMap(exch, pair)
                         \o <<[role |-> "user", parts |-> <<[text |-> prmpt]>>]>>]

\* the arguments of one call of build_request
BodyInputs ==
    [fn : {"build_request"}, provider : Providers, config : Configs,
     exchanges : Histories, prompt : Prompts]

InitBody ==
    /\ InitProgram
    /\ fin \in BodyInputs
    /\ fout = <<>>

program ==
    <<backend, timing, cancelv, settings, ui, frames, last, decoded, channel, chain, counter,
      status>>

\* build_request: the body is the one of the key's provider
BuildRequest(p) ==
    /\ fin # <<>>
    /\ fin.fn = "build_request"
    /\ fin.provider = p
    /\ fout = <<>>
    /\ fout' = <<CASE p = "OpenAI" ->
                        build_openai_request_body(fin.config, fin.exchanges, fin.prompt)
                   [] p = "Anthropic" ->
                        build_anthropic_request_body(fin.config, fin.exchanges, fin.prompt)
                   [] p = "Google" ->
                        build_google_request_body(fin.config, fin.exchanges, fin.prompt)>>
    /\ UNCHANGED <<program, fin>>

tokens_stream_ExactName(provider, model) ==
    CASE provider = "OpenAI" /\ model = o1 -> "once_chain"
      [] provider = "OpenAI" -> "openai_eventsource"
      [] provider = "Anthropic" -> "anthropic_eventsource"
      [] provider = "Google" -> "google_bytes"

\* the match that picks the stream of tokens: its arms in their order
tokens_stream(provider, model) ==
    CASE provider = "OpenAI" /\ StartsWith(model, o1) -> "once_chain"
      [] provider = "OpenAI" -> "openai_eventsource"
      [] provider = "Anthropic" -> "anthropic_eventsource"
      [] provider = "Google" -> "google_bytes"

\* build_token_stream, once the request it built has been answered with status 200
SelectDecoder ==
    /\ fin # <<>>
    /\ fin.fn = "build_request"
    /\ Len(fout) = 1
    /\ fout' = Append(fout, tokens_stream(fin.provider, fin.config.model))
    /\ UNCHANGED <<program, fin>>

NextBody ==
    \/ BuildRequest("OpenAI")
    \/ BuildRequest("Anthropic")
    \/ BuildRequest("Google")
    \/ SelectDecoder

SpecBody == InitBody /\ [][NextBody]_vars

\* a request body has been built
Built == fin # <<>> /\ fin.fn = "build_request" /\ fout # <<>>

\* the message list of the body: `messages`, for Google `contents`
MessageList == IF fin.provider = "Google" THEN fout[1].contents ELSE fout[1].messages

\* the role and the text of a message of the list
RoleOf(m) == m.role
TextOf(m) == IF fin.provider = "Google" THEN m.parts[1].text ELSE m.content

\* the number of messages before the history: the leading system message of OpenAI
Lead == IF fin.provider = "OpenAI" /\ fin.config.system_prompt # "" THEN 1 ELSE 0

\* C21: the message list is, oldest exchange first, a user message followed by an assistant
\* (Google: model) message per exchange, then the prompt as the final user message; its
\* length is 2*|history| + 1, plus one leading system message for OpenAI when the system
\* prompt is non-empty.
C21_MessageOrder ==
    Built =>
        LET n == Len(fin.exchanges)
            m == MessageList
            reply == IF fin.provider = "Google" THEN "model" ELSE "assistant"
        IN  /\ Len(m) = Lead + 2 * n + 1
            /\ \A i \in 1..n :
                 /\ RoleOf(m[Lead + 2 * i - 1]) = "user"
                 /\ TextOf(m[Lead + 2 * i - 1]) = fin.exchanges[i].user_message
                 /\ RoleOf(m[Lead + 2 * i]) = reply
                 /\ TextOf(m[Lead + 2 * i]) = fin.exchanges[i].assistant_message
            /\ RoleOf(m[Len(m)]) = "user"
            /\ TextOf(m[Len(m)]) = fin.prompt
            /\ Lead = 1 => RoleOf(m[1]) = "system"

\* a body built for Anthropic from a history of two different exchanges
C21_Witness ==
    /\ Built
    /\ fin.provider = "Anthropic"
    /\ Len(fin.exchanges) = 2
    /\ fin.exchanges[1] # fin.exchanges[2]
    /\ Len(MessageList) = 5

\* C22: the system message is omitted when config.system_prompt is empty for OpenAI and for
\* Anthropic and always sent for Google; a non-empty one is the leading `system` message
\* (OpenAI), the top-level `system` field (Anthropic) or system_instruction.parts[0].text
\* (Google).
C22_SystemPrompt ==
    Built =>
        LET body == fout[1]
            sp == fin.config.system_prompt
        IN  CASE fin.provider = "OpenAI" ->
                    IF sp = "" THEN \A i \in 1..Len(body.messages) :
                                        body.messages[i].role # "system"
                    ELSE body.messages[1] = [role |-> "system", content |-> sp]
              [] fin.provider = "Anthropic" ->
                    IF sp = "" THEN "system" \notin DOMAIN body
                    ELSE "system" \in DOMAIN body /\ body.system = sp
              [] fin.provider = "Google" ->
                    body.system_instruction.parts[1].text = sp

\* ---------------------------------------------------------------------------------------
\* Response text (src/tauri/src/fetch_tokens.rs, the parse_*_response functions on the text
\* they receive). A text is a sequence of symbols: white space, the JSON punctuation `[`,
\* `,` and `]`, the bare word DONE, and JSON objects, each named by the members it has.
\* ---------------------------------------------------------------------------------------

MaxChunk == 3

Ws == " "
Punctuation == {"[", ",", "]"}
ObjectSymbols ==
    {"{finish,content}", "{content}", "{delta}", "{error,candidate}", "{error}",
     "{candidate}", "{}"}
Symbols == {Ws, "DONE"} \cup Punctuation \cup ObjectSymbols

\* what indexing the parsed object finds
Object(sym) ==
    CASE sym = "{finish,content}" -> Json(TRUE, "t", Null, FALSE, Null, Null)
      [] sym = "{content}" -> Json(FALSE, "t", Null, FALSE, Null, Null)
      [] sym = "{delta}" -> Json(FALSE, Null, "t", FALSE, Null, Null)
      [] sym = "{error,candidate}" -> Json(FALSE, Null, Null, TRUE, "quota", "t")
      [] sym = "{error}" -> Json(FALSE, Null, Null, TRUE, Null, Null)
      [] sym = "{candidate}" -> Json(FALSE, Null, Null, FALSE, Null, "t")
      [] OTHER -> Json(FALSE, Null, Null, FALSE, Null, Null)

Chunks == UNION {[1..n -> Symbols] : n \in 0..MaxChunk}

RECURSIVE trim_start(_)
trim_start(s) == IF s # <<>> /\ Head(s) = Ws THEN trim_start(Tail(s)) ELSE s

RECURSIVE trim_end(_)
trim_end(s) ==
    IF s # <<>> /\ s[Len(s)] = Ws THEN trim_end(SubSeq(s, 1, Len(s) - 1)) ELSE s

\* str::trim
trim(s) == trim_end(trim_start(s))

RECURSIVE ValueEnd(_, _), ElementsEnd(_, _)
\* the index after the JSON value that starts at tokens[i]; 0 when there is none
ValueEnd(tokens, i) ==
    IF i > Len(tokens) THEN 0
    ELSE IF tokens[i] \in ObjectSymbols THEN i + 1
    ELSE IF tokens[i] = "[" THEN
        IF i + 1 <= Len(tokens) /\ tokens[i + 1] = "]" THEN i + 2
        ELSE ElementsEnd(tokens, i + 1)
    ELSE 0

\* the index after the `]` that closes the array whose next element starts at tokens[i]
ElementsEnd(tokens, i) ==
    LET j == ValueEnd(tokens, i)
    IN  IF j = 0 \/ j > Len(tokens) THEN 0
        ELSE IF tokens[j] = "]" THEN j + 1
        ELSE IF tokens[j] = "," THEN ElementsEnd(tokens, j + 1)
        ELSE 0

\* serde_json::from_str::<Value>: the one value of the text, white space around its tokens
\* ignored; an array answers every member lookup with null
from_str(s) ==
    LET IsToken(c) == c # Ws
        tokens == SelectSeq(s, IsToken)
    IN  IF s = <<>> THEN Plain("empty")
        ELSE IF tokens = <<>> \/ ValueEnd(tokens, 1) # Len(tokens) + 1 THEN Plain("garbage")
        ELSE IF Len(tokens) = 1 THEN Object(tokens[1])
        ELSE Object("{}")

DONE == <<"[", "DONE", "]">>

\* an SSE message as parse_openai_response reads it: `[DONE]` after trimming, else JSON
OpenAIMessage(event, data) ==
    Unit(event, "", FALSE, IF trim(data) = DONE THEN Plain("done") ELSE from_str(data))

\* an SSE message as parse_anthropic_response reads it
AnthropicMessage(event, data) == Unit(event, "", FALSE, from_str(data))

strip_prefix_Kept(message) == message

\* message = &message[1..] when it starts with `[` or `,`
strip_prefix(message) ==
    IF message # <<>> /\ Head(message) \in {"[", ","} THEN Tail(message) ELSE message

\* message.ends_with("]")
ends_with_bracket(message) == message # <<>> /\ message[Len(message)] = "]"

\* a chunk as parse_google_response reads it: trimmed, the framing stripped, the rest JSON
GoogleChunk(data) ==
    LET trimmed == trim(data)
        message == strip_prefix(trimmed)
        rest == IF ends_with_bracket(message)
                THEN SubSeq(message, 1, Len(message) - 1) ELSE message
    IN  Unit("", IF message # trimmed THEN Head(trimmed) ELSE "",
             ends_with_bracket(message), from_str(rest))

OpenAIEvents == {"error", "message"}
AnthropicEvents == {"error", "ping", "content_block_delta"}

\* one item of the transport stream of a provider, as text
DecodeInputs ==
    [fn : {"parse"}, provider : {"OpenAI"}, event : OpenAIEvents, utf8 : {TRUE},
     data : Chunks]
    \cup [fn : {"parse"}, provider : {"Anthropic"}, event : AnthropicEvents, utf8 : {TRUE},
          data : Chunks]
    \cup [fn : {"parse"}, provider : {"Google"}, event : {""}, utf8 : {TRUE}, data : Chunks]
    \cup [fn : {"parse"}, provider : {"Google"}, event : {""}, utf8 : {FALSE},
          data : {<<>>}]

InitDecode ==
    /\ InitProgram
    /\ fin \in DecodeInputs
    /\ fout = <<>>

\* the decoder of the provider applied to the item
Parse(p) ==
    /\ fin # <<>>
    /\ fin.fn = "parse"
    /\ fin.provider = p
    /\ fout = <<>>
    /\ fout' = <<CASE p = "OpenAI" ->
                        parse_openai_response(OpenAIMessage(fin.event, fin.data))
                   [] p = "Anthropic" ->
                        parse_anthropic_response(AnthropicMessage(fin.event, fin.data))
                   [] p = "Google" ->
                        IF ~fin.utf8 THEN ErrTok("<utf8>")
                        ELSE parse_google_response(GoogleChunk(fin.data))>>
    /\ UNCHANGED <<program, fin>>

NextDecode ==
    \/ Parse("OpenAI")
    \/ Parse("Anthropic")
    \/ Parse("Google")

SpecDecode == InitDecode /\ [][NextDecode]_vars

\* the item has been decoded
Parsed == fin # <<>> /\ fin.fn = "parse" /\ fout # <<>>

\* the text of the item is one JSON value
IsJson(s) == from_str(s).form = "json"

\* the JSON text a Google chunk carries between its framing
GoogleRest ==
    LET t == trim(fin.data)
        a == IF t # <<>> /\ t[1] \in {"[", ","} THEN 2 ELSE 1
        b == IF Len(t) >= a /\ t[Len(t)] = "]" THEN Len(t) - 1 ELSE Len(t)
    IN  SubSeq(t, a, b)

\* a trailing `]` was stripped from the Google chunk
GoogleTrail ==
    LET t == trim(fin.data)
        a == IF t # <<>> /\ t[1] \in {"[", ","} THEN 2 ELSE 1
    IN  Len(t) >= a /\ t[Len(t)] = "]"

\* the JSON value of the item
Value == IF fin.provider = "Google" THEN from_str(GoogleRest) ELSE from_str(fin.data)

\* the item is JSON of a shape the decoder of its provider gives a meaning to
Recognized ==
    CASE fin.provider = "OpenAI" ->
            fin.event = "error" \/ Value.finish_reason \/ Value.content # Null
      [] fin.provider = "Anthropic" ->
            fin.event = "error" \/ Value.delta_text # Null
      [] fin.provider = "Google" ->
            Value.has_error \/ Value.cand_text # Null

\* C23 (as stated): a response unit whose JSON shape is not a recognized end marker, error
\* report or text-carrying shape decodes to Err, for each of the three providers.
C23_FailsLoudly ==
    (Parsed /\ fin.utf8 /\ Value.form = "json" /\ ~Recognized) => fout[1].kind = "Err"

\* C23 (amended): the same, for every unit but the Anthropic events of a kind other than
\* content_block_delta, which are keep-alives by their kind, whatever their JSON shape.
C23_FailsLoudlyButKeepAlive ==
    (/\ Parsed /\ fin.utf8 /\ Value.form = "json" /\ ~Recognized
     /\ ~(fin.provider = "Anthropic" /\ fin.event # "content_block_delta"))
        => fout[1].kind = "Err"

\* an Anthropic content_block_delta event whose JSON object has no delta.text
C23_Witness ==
    /\ Parsed
    /\ fin.provider = "Anthropic"
    /\ fin.event = "content_block_delta"
    /\ fin.data = <<Ws, "{}">>
    /\ fout[1] = ErrTok(ParseError)

\* C24: the OpenAI decoder classifies a message by this priority: event kind `error` -> Err
\* with the event data; data equal to `[DONE]` after trimming -> End; data that is not JSON
\* -> Err; non-null finish_reason -> End, even with delta.content present; string
\* delta.content -> that Text; otherwise Err.
C24_OpenAIPriority ==
    (Parsed /\ fin.provider = "OpenAI") =>
        fout[1] = IF fin.event = "error" THEN ErrTok("<event data>")
                  ELSE IF trim(fin.data) = DONE THEN EndTok
                  ELSE IF ~IsJson(fin.data) THEN ErrTok(ParseError)
                  ELSE IF Value.finish_reason THEN EndTok
                  ELSE IF Value.content # Null THEN Text(Value.content)
                  ELSE ErrTok(ParseError)

\* a message with both a finish_reason and delta.content, which ends the response
C24_Witness ==
    /\ Parsed
    /\ fin.provider = "OpenAI"
    /\ fin.event = "message"
    /\ trim(fin.data) = <<"{finish,content}">>
    /\ fout[1] = EndTok

\* C25: the Anthropic decoder takes text only from content_block_delta events (delta.text);
\* every event of another kind except `error` decodes to an empty keep-alive token, whatever
\* its data; an `error` event decodes to Err; the decoder never returns End.
C25_AnthropicKinds ==
    (Parsed /\ fin.provider = "Anthropic") =>
        /\ fout[1].kind # "End"
        /\ fin.event = "error" => fout[1].kind = "Err"
        /\ fin.event \notin {"error", "content_block_delta"} => fout[1] = Text("")
        /\ (fout[1].kind = "Text" /\ fout[1].txt # "") =>
              (fin.event = "content_block_delta" /\ fout[1].txt = Value.delta_text)

\* C26: the Google decoder strips one leading `[` or `,` and one trailing `]` from the
\* trimmed chunk; a stripped `]` with nothing left is End; otherwise the rest is parsed as
\* JSON: a non-null `error` gives Err with error.message (checked before the text), a
\* string candidates[0].content.parts[0].text gives that Text, anything else gives Err.
C26_GoogleFraming ==
    (Parsed /\ fin.provider = "Google" /\ fin.utf8) =>
        fout[1] = IF GoogleTrail /\ GoogleRest = <<>> THEN EndTok
                  ELSE IF ~IsJson(GoogleRest) THEN ErrTok(ParseError)
                  ELSE IF Value.has_error
                       THEN ErrTok(IF Value.error_message # Null
                                   THEN Value.error_message ELSE "Error with request.")
                  ELSE IF Value.cand_text # Null THEN Text(Value.cand_text)
                  ELSE ErrTok(ParseError)

\* a chunk that closes the array after its last object: the framing goes, the text stays
C26_Witness ==
    /\ Parsed
    /\ fin.provider = "Google"
    /\ fin.data = <<",", "{candidate}", "]">>
    /\ fout[1] = Text("t")

\* C28: the streaming mode of the request and the decoder of its response agree: the OpenAI
\* body has stream = false exactly when the response is read whole and stream = true exactly
\* when the SSE decoder is selected; Anthropic and Google always get their streaming
\* decoders, whatever the model name.
C28_StreamFlagAgrees ==
    (Built /\ Len(fout) = 2) =>
        CASE fin.provider = "OpenAI" ->
                /\ fout[1].stream = FALSE <=> fout[2] = "once_chain"
                /\ fout[1].stream = TRUE <=> fout[2] = "openai_eventsource"
          [] fin.provider = "Anthropic" ->
                fout[1].stream = TRUE /\ fout[2] = "anthropic_eventsource"
          [] fin.provider = "Google" -> fout[2] = "google_bytes"

\* an OpenAI request for a model whose name goes on after `o1`: not streamed, read whole
C28_Witness ==
    /\ Built
    /\ Len(fout) = 2
    /\ fin.provider = "OpenAI"
    /\ fin.config.model = <<"o", "1", "-", "m">>
    /\ fout[1].stream = FALSE
    /\ fout[2] = "once_chain"

\* ---------------------------------------------------------------------------------------
\* The response that is read whole (build_token_stream, the arm of the models named o1..).
\* ---------------------------------------------------------------------------------------

\* every request goes to OpenAI with a model whose name starts with o1
InitO1 ==
    /\ InitStream
    /\ chain = [r \in Req |-> <<[yielded |-> 0, body |-> Closed]>>]
    /\ counter = <<>>
    /\ fin = <<>>
    /\ fout = <<>>

\* the once-chain stream yields its next item: the body when response.text() resolves, then
\* Ok(None), then nothing more
ArriveO1(r, body) ==
    /\ pc[r] = "streaming"
    /\ ready[r] = <<>>
    /\ chain[r] # <<>>
    /\ LET n == chain[r][1].yielded
           u == IF n = 0 THEN body ELSE IF n = 1 THEN ReadyEnd ELSE Closed
       IN  /\ n = 0 \/ body = chain[r][1].body
           /\ chain' = [chain EXCEPT ![r] =
                 <<[yielded |-> IF n < 2 THEN n + 1 ELSE n, body |-> body]>>]
           /\ ready' = [ready EXCEPT ![r] =
                 << [u |-> u, early |-> clock[r] - started[r] < sleepFor[r]] >>]
           /\ decoded' = [decoded EXCEPT ![r] =
                 IF u = Closed \/ Decode(prov[r], u) = Text("") THEN @
                 ELSE Append(@, Decode(prov[r], u))]
    /\ UNCHANGED <<clock, started, sleepFor, frames, last, channel, counter, status, fin, fout>>
    /\ UNCHANGED <<backend, cancelv, settings, ui>>

\* time passes; what follows the body in the once-chain stream is ready without waiting
TickO1(d) ==
    /\ \A r \in Req :
          ~(pc[r] = "streaming" /\ ready[r] = <<>> /\ chain[r] # <<>>
               /\ chain[r][1].yielded >= 1)
    /\ Tick(d)

\* one request to OpenAI for a model named o1..
NextO1 ==
    \/ \E r \in {1} : OnSubmit(r)
    \/ OnCancel(MaxCancels)
    \/ CancelDelivered
    \/ \E r \in {1} : UiResult(r)
    \/ \E r \in {1}, ok \in BOOLEAN : UiListen(r, ok)
    \/ \E r \in {1}, k \in KeyChoice : BuildTokenStream_Begin(r, k, MaxKeys, TRUE, "OpenAI")
    \/ \E r \in {1}, o \in SendOutcomes : BuildTokenStream_Sent(r, o)
    \/ \E r \in {1} : BuildTokenStream_Canceled(r)
    \/ \E r \in {1}, body \in O1Bodies : ArriveO1(r, body)
    \/ TickO1(TickMs)
    \/ \E r \in {1}, ok \in BOOLEAN : CollectTokens_Cancel(r, ok)
    \/ \E r \in {1}, ok \in BOOLEAN : CollectTokens_Unit(r, ok)

SpecO1 == InitO1 /\ [][NextO1]_vars

\* the body of the response of r is a chat completion, and the task of r has taken the
\* stream to its end: no cancel and no failed emit stopped it
Delivered(r) ==
    /\ pc[r] = "done"
    /\ stop[r] = "end"
    /\ chain[r] # <<>>
    /\ chain[r][1].body.item = "text"
    /\ chain[r][1].body.data.message_content # Null

\* C27 (as stated): for a model named o1.., a successful response is delivered as exactly
\* two frames: one Text frame holding the full response content, then End.
C27_TwoFrames ==
    \A r \in Req : Delivered(r) =>
        frames[r] = <<Text(chain[r][1].body.data.message_content), EndTok>>

\* C27 (amended): a successful response with non-empty content is delivered as exactly the
\* Text frame of the full content, then End; one whose content is empty as End alone.
C27_TwoFramesUnlessEmpty ==
    \A r \in Req : Delivered(r) =>
        frames[r] = IF chain[r][1].body.data.message_content = ""
                    THEN <<EndTok>>
                    ELSE <<Text(chain[r][1].body.data.message_content), EndTok>>

\* the view has received the content and the End of a response that was read whole
C27_Witness ==
    \E r \in Req :
        /\ Delivered(r)
        /\ frames[r] = <<Text("t"), EndTok>>
        /\ got[r] = <<<<r, 1>>, <<r, 2>>>>
        /\ uiPhase[r] = "final"

\* the status is one of 200..299
Is2xx(code) == code >= 200 /\ code < 300

\* C29: a response is treated as a transport error exactly when its HTTP status is not 2xx:
\* every non-2xx status makes the call return an error and no frame is streamed, and every
\* 2xx status proceeds to streaming.
C29_ErrorIffNot2xx ==
    \A r \in Req : status[r] # <<>> =>
        IF Is2xx(status[r][1])
        THEN ret[r] = "false"
        ELSE ret[r] = "Err" /\ frames[r] = <<>> /\ pc[r] = "done"

\* C30: no frame is lost between the backend and the view: the view's `token` listener of a
\* request is registered before the task emits the first frame of that request, so every
\* frame the task emits is received by the view's stream of that request (stated for the
\* frames whose emit succeeded, of the requests that no cancel event reached).
C30_NoFrameLost ==
    \A r \in Req : cancels[r] = <<>> =>
        \A i \in DOMAIN frames[r] :
            (i < Len(frames[r]) \/ last[r].ok) =>
                \E j \in DOMAIN got[r] : got[r][j] = <<r, i>>

\* the view has no step of its own left for request r: the command's result has been
\* handled and listen has resolved
Settled(r) == uiPhase[r] \in {"collecting", "final"}

\* C31: after every submit the view leaves the streaming state, whichever way the request
\* ends: once the task of a request has ended with an End frame that was emitted (by the
\* stream's end, a cancel or the exhaustion of the stream) and the view has no step of its
\* own left for it, streaming has been reset to false.
C31_LeavesStreaming ==
    \A r \in Req :
        (/\ pc[r] = "done"
         /\ stop[r] \in {"end", "cancel", "exhausted"}
         /\ last[r].ok
         /\ Settled(r))
            => (uiPhase[r] = "final" /\ (cur = r => ~uiStreaming))

\* C32: every cancel listener registered by build_token_stream is unregistered on every exit
\* path after its registration: no cancel listener of a finished request remains registered
\* on the window.
C32_CancelListenerRemoved ==
    \A r \in Req : pc[r] = "done" => ~cancelL[r]

\* C33: the view's `token` listener of a request is unregistered once that request has
\* delivered its terminal frame, End or Err: when the next request of the window is
\* submitted, no listener of an earlier request is still subscribed.
C33_TokenListenerRemoved ==
    [][\A q \in Req : (uiPhase[q] = "none" /\ uiPhase'[q] = "invoked") =>
          \A r \in Req : ~uiL[r]]_vars

\* the name of the selected key of a config (None: no key selected)
SelectedName(c) == IF c.api_key = None THEN None ELSE Some(c.api_keys[c.api_key[1] + 1])

\* C34: removing a key keeps the selection on the same credential: after on_remove of key
\* k the selection is None if the selected key was k, and otherwise the selected index
\* still designates the key of the same name (one less when it was above k, the same when
\* it was below).
C34_RemoveKeepsSelection ==
    [][Len(config'.api_keys) < Len(config.api_keys) =>
          LET k == lastOp'.index
          IN  IF config.api_key = None THEN config'.api_key = None
              ELSE IF config.api_key[1] = k THEN config'.api_key = None
              ELSE /\ SelectedName(config') = SelectedName(config)
                   /\ config'.api_key[1] =
                         IF config.api_key[1] > k THEN config.api_key[1] - 1
                         ELSE config.api_key[1]]_vars

\* a key listed after the selected key has been removed, and the selection has stayed
C34_Witness ==
    /\ lastOp.op = "remove"
    /\ lastOp.before # None
    /\ lastOp.before[1] < lastOp.index
    /\ config.api_key = lastOp.before
    /\ Len(config.api_keys) >= 2

\* the names of the keys are non-empty and pairwise distinct
NamesDistinct(api_keys) ==
    /\ \A i \in DOMAIN api_keys : api_keys[i] # ""
    /\ \A i, j \in DOMAIN api_keys : api_keys[i] = api_keys[j] => i = j

LeptosSubmit ==
    /\ counter # None
    /\ ~uiStreaming
    /\ counter[1] < MaxAppend
    /\ uiStreaming' = TRUE
    /\ prompt' = 0
    /\ answer' = <<>>
    /\ UNCHANGED <<cur, uiPhase, uiL, got, exchanges, saved, keys, uuid, calls, store>>
    /\ UNCHANGED <<backend, timing, cancelv, settings, extra, frames, last, decoded, channel>>

\* the end of its task, the stream having left assistant_message in new_exchange: the
\* exchange is pushed with the counter as its key and the counter is incremented
LeptosSubmit_End(assistant_message) ==
    /\ counter # None
    /\ uiStreaming
    /\ IF KeepsAnswer(assistant_message)
       THEN /\ exchanges' = Append(exchanges, [user |-> 0, assistant |-> assistant_message])
            /\ keys' = Append(keys, counter[1])
            /\ counter' = Some(counter[1] + 1)
            /\ UNCHANGED prompt
       ELSE /\ prompt' = 1
            /\ UNCHANGED <<exchanges, keys, counter>>
    /\ uiStreaming' = FALSE
    /\ UNCHANGED <<cur, uiPhase, uiL, got, answer, saved, uuid, calls, store>>
    /\ UNCHANGED <<backend, timing, cancelv, settings, frames, last, decoded, channel>>
    /\ UNCHANGED <<chain, status, fin, fout>>

\* its on_delete
LeptosDelete(id) ==
    /\ counter # None
    /\ \E i \in DOMAIN keys : keys[i] = id
    /\ keys' = KeysOf(Retain(Keyed(keys, exchanges), id))
    /\ exchanges' = ExchangesOf(Retain(Keyed(keys, exchanges), id))
    /\ UNCHANGED <<uiStreaming, cur, uiPhase, uiL, got, answer, prompt, saved, uuid, calls, store>>
    /\ UNCHANGED <<backend, timing, cancelv, settings, extra, frames, last, decoded, channel>>

\* its on_new; the button is hidden while streaming
LeptosNew ==
    /\ counter # None
    /\ ~uiStreaming
    /\ counter' = Some(0)
    /\ keys' = <<>>
    /\ exchanges' = <<>>
    /\ UNCHANGED <<uiStreaming, cur, uiPhase, uiL, got, answer, prompt, saved, uuid, calls, store>>
    /\ UNCHANGED <<backend, timing, cancelv, settings, frames, last, decoded, channel>>
    /\ UNCHANGED <<chain, status, fin, fout>>

\* the answers a stream leaves behind
Answers == {<<>>, <<"t">>}

\* the commands invoked with an empty list: add_conversation, and set_exchanges on a stored
\* conversation or on one that is not found (0 is the uuid of none)
Foreign ==
    {[fn |-> "add_conversation", uuid |-> None, exchanges |-> <<>>]}
    \cup {[fn |-> "set_exchanges", uuid |-> Some(id), exchanges |-> <<>>] :
             id \in {c.uuid : c \in store} \cup {0}}

\* the units of the streams followed here: a delta with text, [DONE]
ChatUnits ==
    { Unit("message", "", FALSE, Json(FALSE, "t", Null, FALSE, Null, Null)),
      Unit("message", "", FALSE, Plain("done")) }

InitChat ==
    /\ InitStream
    /\ chain = [r \in Req |-> <<>>]
    /\ counter \in {None, Some(0)}
    /\ fin = <<>>
    /\ fout = <<>>

\* either view, an OpenAI stream that succeeds, and the storage commands
NextChat ==
    \/ counter = None /\ \E r \in Req : OnSubmit(r)
    \/ \E r \in Req : UiResult(r)
    \/ \E r \in Req : UiListen(r, TRUE)
    \/ \E r \in Req : BuildTokenStream_Begin(r, Some(0), 1, TRUE, "OpenAI")
    \/ \E r \in Req : BuildTokenStream_Sent(r, [sent |-> TRUE, status |-> OK])
    \/ \E r \in Req, u \in ChatUnits \cup {Closed} : Arrive(r, u, TwoFrames)
    \/ Tick(bottleneck)
    \/ \E r \in Req : CollectTokens_Unit(r, TRUE)
    \/ counter = None /\ Len(calls) < MaxCalls /\ \E key \in 0..MaxReq : OnDelete(key)
    \/ counter = None /\ OnNew
    \/ \E i \in DOMAIN calls : Returns(i)
    \/ \E c \in Foreign : Invoke(c)
    \/ LeptosSubmit
    \/ \E m \in Answers : LeptosSubmit_End(m)
    \/ \E id \in 0..MaxAppend : LeptosDelete(id)
    \/ LeptosNew

SpecChat == InitChat /\ [][NextChat]_vars


\* ---- C36 ----
KeysDistinct(ks) == \A i, j \in DOMAIN ks : i # j => ks[i] # ks[j]

\* a submit completes in this step and appends an exchange with key k
Appends(k) == uiStreaming /\ ~uiStreaming' /\ keys' = Append(keys, k)

\* C36 as stated: the keys of the view's exchanges stay pairwise distinct, and a completed
\* submit appends a key strictly greater than every key in the list, 0 for an empty list
C36_KeysDistinct ==
    [][/\ KeysDistinct(keys')
       /\ \A k \in 0..(MaxReq + MaxAppend) :
             Appends(k) => /\ \A i \in DOMAIN keys : k > keys[i]
                           /\ keys = <<>> => k = 0]_vars

\* C36 amended: the keys stay pairwise distinct and a completed submit appends a key
\* strictly greater than every key in the list; for an empty list it is 0 in the view of
\* ui, and in the earlier view the value of its counter, which New resets and a deletion
\* does not
C36_KeysDistinctCounter ==
    [][/\ KeysDistinct(keys')
       /\ \A k \in 0..(MaxReq + MaxAppend) :
             Appends(k) => /\ \A i \in DOMAIN keys : k > keys[i]
                           /\ (keys = <<>> /\ counter = None) => k = 0
                           /\ counter # None => k = counter[1]]_vars

\* the second request's exchange has key 0 in the view of ui, the first one's having been
\* stored and deleted from the list
C36_Witness ==
    /\ counter = None
    /\ keys = <<0>>
    /\ exchanges[1].user = 2
    /\ \E c \in store : Len(c.exchanges) = 1 /\ c.exchanges[1][2].user = 1


\* ---- C37 ----
\* a storage command ran in this step
CommandRan == fout' # <<>> /\ (fout = <<>> \/ fin' # fin \/ fout' # fout \/ calls' # calls)

\* no stored conversation is empty, and none of the view's outstanding saves is
NeverEmpty ==
    /\ \A c \in store' : c.exchanges # <<>>
    /\ \A i \in DOMAIN calls' :
          calls'[i].fn \in {"add_conversation", "set_exchanges"} => calls'[i].exchanges # <<>>

\* add_conversation and set_exchanges with an empty list fail and commit nothing
EmptyListFails ==
    (/\ CommandRan
     /\ fin'.fn \in {"add_conversation", "set_exchanges"}
     /\ fin'.exchanges = <<>>) => (fout' = <<"Err">> /\ store' = store)

\* on_delete removes the last exchange of the list: with the uuid unchanged and set, or
\* while streaming, no other handler of the view of ui empties the list
DeletesLast ==
    /\ counter = None
    /\ keys # <<>>
    /\ keys' = <<>>
    /\ (uuid # None /\ uuid' = uuid) \/ uiStreaming

IsU32(text) ==
    \E ds \in {text} \cup (IF text # <<>> /\ text[1] = "+" THEN {Tail(text)} ELSE {}) :
        /\ ds # <<>>
        /\ \A i \in DOMAIN ds : IsDigit(ds[i])
        /\ ~Greater(Numeral(ds), u32_MAX)

ParseErrors ==
    {"cannot parse integer from empty string", "invalid digit found in string",
     "number too large to fit in target type"}

\* C38: on_apply with a max-tokens text that is no unsigned 32-bit integer sets an error
\* message and changes neither the edited config, the active config nor the saved config,
\* and no save is issued
C38_BadMaxTokensChangesNothing ==
    [][(applies' = applies + 1 /\ ~IsU32(max_tokens)) =>
          /\ error' \in ParseErrors
          /\ config' = config
          /\ active_config' = active_config
          /\ saved_config' = saved_config
          /\ pending' = pending
          /\ disk' = disk
          /\ max_tokens' = max_tokens]_vars

\* Apply was pressed on a text that is no number while the edited config, with a key added,
\* differed from the active and the saved one; the error is shown
C38_Witness ==
    /\ applies > 0
    /\ ~IsU32(max_tokens)
    /\ error \in ParseErrors
    /\ saved_config # <<>>
    /\ config # active_config
    /\ pending = <<>>

====
